---- MODULE Spec2Model ----
(***************************************************************************)
(* Inventory manager server: the versioned entity store (items and         *)
(* inventories), item creation under the (inventoryId, customId) unique    *)
(* index, and the per-inventory field schema.  Every request handler is a  *)
(* process that advances from one storage call (await) to the next; the    *)
(* statements of an interactive transaction write to a private buffer that *)
(* is published at commit (PostgreSQL READ COMMITTED, row locks held to    *)
(* the end of the transaction).                                            *)
(***************************************************************************)
EXTENDS Integers, Sequences, FiniteSets, TLC

(* ---------------------------------------------------------------- bounds *)

\* Number of requests the clients start in one behaviour.
MaxOps == 2

\* Request slots: at most two requests are in flight at a time.
Reqs == {1, 2}

(* ------------------------------------------------------- JSON-ish values *)

Undef == [kind |-> "undefined", num |-> 0, str |-> "", bool |-> FALSE]
Null == [kind |-> "null", num |-> 0, str |-> "", bool |-> FALSE]
Num(n) == [kind |-> "number", num |-> n, str |-> "", bool |-> FALSE]
Str(s) == [kind |-> "string", num |-> 0, str |-> s, bool |-> FALSE]
Bool(b) == [kind |-> "boolean", num |-> 0, str |-> "", bool |-> b]

\* a ?? b
Nullish(a) == a.kind \in {"undefined", "null"}
Coalesce(a, b) == IF Nullish(a) THEN b ELSE a

\* String.prototype.trim over the strings the clients send.
Trim(s) ==
  CASE s = " " -> ""
    [] s = "  " -> ""
    [] s = " qty " -> "qty"
    [] s = "a " -> "a"
    [] s = " office" -> "office"
    [] OTHER -> s

\* Range of a sequence.
Range(s) == {s[k] : k \in 1..Len(s)}

\* Sequence filter keeping order (Array.prototype.filter).
RECURSIVE FilterSeq(_, _)
FilterSeq(s, keep) ==
  IF s = <<>> THEN <<>>
  ELSE IF Head(s) \in keep THEN <<Head(s)>> \o FilterSeq(Tail(s), keep)
  ELSE FilterSeq(Tail(s), keep)

(* ------------------------------------------------------------ the store *)

VARIABLES
  inventories,       \* table Inventory: id -> row
  inventoryTags,     \* table InventoryTag joined with Tag: inventory id -> tag names
  tags,              \* table Tag: the tag names
  items,             \* table Item: id -> row (committed)
  itemFieldValues,   \* table ItemFieldValue: item id -> rows in insertion order
  inventoryFields,   \* table InventoryField: id -> row
  nextFieldId,       \* the next fresh InventoryField id
  nextValueId,       \* the next fresh ItemFieldValue id
  customIdElements,  \* table InventoryCustomIdElement: inventory id -> rows
  pc,                \* request slot -> the await the handler is suspended at
  req,               \* request slot -> route and body
  loc,               \* request slot -> the handler's local variables
  resp,              \* request slot -> the response sent
  started,           \* number of requests started so far
  snapshots          \* history: item id -> the committed states the item has had

vars == <<inventories, inventoryTags, tags, items, itemFieldValues, inventoryFields,
          nextFieldId, nextValueId, customIdElements, pc, req, loc, resp, started,
          snapshots>>

tables == <<inventories, inventoryTags, tags, items, itemFieldValues, inventoryFields,
            nextFieldId, nextValueId, customIdElements>>

store == <<tables, snapshots>>

InvIds == {"seed-office-laptops", "seed-library-books"}
Office == "seed-office-laptops"
Books == "seed-library-books"
Users == {"demo@example.com"}

NoBody == [none |-> TRUE]
NoResp == [status |-> 0, message |-> "", body |-> NoBody]
NoReq == [op |-> "none", n |-> 0]
NoLoc == [none |-> TRUE]

\* The rows seed.ts creates.
SeedInventories ==
  [i \in InvIds |->
     IF i = Office
     THEN [title |-> "Office laptops", description |-> Str("Company laptops and notebooks."),
           category |-> "EQUIPMENT", isPublic |-> FALSE, imageUrl |-> Null, version |-> 1]
     ELSE [title |-> "Library books", description |-> Str("Public library collection."),
           category |-> "BOOK", isPublic |-> FALSE, imageUrl |-> Null, version |-> 1]]

SeedInventoryTags == [i \in InvIds |-> IF i = Office THEN {"equipment"} ELSE {"books"}]

SeedTags == {"equipment", "books", "hr", "documents"}

SeedItems ==
  [k \in 1..3 |->
     CASE k = 1 -> [inventoryId |-> Office, customId |-> "LP-000001", version |-> 1]
       [] k = 2 -> [inventoryId |-> Office, customId |-> "LP-000002", version |-> 1]
       [] k = 3 -> [inventoryId |-> Books, customId |-> "BK-000001", version |-> 1]]

ValueRow(id, fieldId, vs, vn, vb, vl) ==
  [id |-> id, fieldId |-> fieldId, valueString |-> vs, valueNumber |-> vn,
   valueBoolean |-> vb, valueLink |-> vl]

FieldRow(inv, type, title, idx) ==
  [inventoryId |-> inv, type |-> type, title |-> title, description |-> Null,
   showInTable |-> FALSE, orderIndex |-> idx]

\* The JSON the item routes send for an item and its value rows.
ItemJson(id, row, values) ==
  [id |-> id, inventoryId |-> row.inventoryId, customId |-> row.customId,
   version |-> row.version,
   fields |-> [k \in 1..Len(values) |->
                [fieldId |-> values[k].fieldId,
                 title |-> inventoryFields[values[k].fieldId].title,
                 type |-> inventoryFields[values[k].fieldId].type,
                 valueString |-> values[k].valueString,
                 valueNumber |-> values[k].valueNumber,
                 valueBoolean |-> values[k].valueBoolean,
                 valueLink |-> values[k].valueLink]]]

ElementRow(type, idx, fixedText, numberWidth) ==
  [type |-> type, orderIndex |-> idx, fixedText |-> fixedText, numberWidth |-> numberWidth]

\* The store after the seed, and the store after the seed followed by one
\* PUT fields and one PUT custom-id on the office inventory and one PATCH of
\* item 1 that stored a number (its version is 2 then).
InitStores ==
  { [fields |-> <<>>, elements |-> [i \in InvIds |-> <<>>], values |-> [k \in 1..3 |-> <<>>], items |-> SeedItems, nextFieldId |-> 1,
      nextValueId |-> 1],
    [fields |-> <<FieldRow(Office, "NUMBER", "qty", 0), FieldRow(Office, "SINGLE_LINE_TEXT", "name", 1)>>,
     elements |-> [i \in InvIds |-> IF i = Office THEN <<ElementRow("FIXED_TEXT", 0, Str("LP-"), Null),
                                                          ElementRow("SEQUENCE", 1, Null, Null)>>
                                    ELSE <<>>],
     values |-> [k \in 1..3 |-> IF k = 1 THEN <<ValueRow(1, 1, Null, Num(5), Null, Null)>> ELSE <<>>],
     items |-> [SeedItems EXCEPT ![1].version = 2],
     nextFieldId |-> 3, nextValueId |-> 2] }

Init ==
  /\ inventories = SeedInventories
  /\ inventoryTags = SeedInventoryTags
  /\ tags = SeedTags
  /\ \E s \in InitStores :
       /\ items = s.items
       /\ itemFieldValues = s.values
       /\ inventoryFields = s.fields
       /\ nextFieldId = s.nextFieldId
       /\ nextValueId = s.nextValueId
       /\ customIdElements = s.elements
  /\ pc = [r \in Reqs |-> "idle"]
  /\ req = [r \in Reqs |-> NoReq]
  /\ loc = [r \in Reqs |-> NoLoc]
  /\ resp = [r \in Reqs |-> NoResp]
  /\ started = 0
  /\ snapshots = [j \in DOMAIN items |-> {ItemJson(j, items[j], itemFieldValues[j])}]

\* A slot takes a new request when it is free and the budget allows.
CanStart(r) == pc[r] \in {"idle", "done"} /\ started < MaxOps

\* The handler of slot r sends its response and ends.
Reply(r, status, message, body) ==
  /\ resp' = [resp EXCEPT ![r] = [status |-> status, message |-> message, body |-> body]]
  /\ pc' = [pc EXCEPT ![r] = "done"]

(* ------------------------------------------- transactions and row locks *)

\* Slots whose handler is inside the item transaction, after tx.item.update
\* took the row lock of the item.
InItemTx(r) == pc[r] \in {"piTxDelete", "piTxCreate", "piTxCommit"}

\* Slots inside the replace-fields transaction that hold row locks: on the
\* value rows it deleted, and after deleteMany of the fields on those too.
InFieldsTx(r) == pc[r] \in {"rfTxDeleteFields", "rfTxCreate"}

\* Mutant: the index check does not wait for keys of open transactions.
InDoubtCustomIds_NoWait(r, inv) == {}

\* customIds of an inventory whose index entry is held by an open
\* transaction: the key an uncommitted update leaves and the key it takes.
\* An insert or update of such a key waits for that transaction.
InDoubtCustomIds(r, inv) ==
  UNION { IF InItemTx(q) /\ items[req[q].itemId].inventoryId = inv
          THEN {items[req[q].itemId].customId, loc[q].txItem.customId}
          ELSE {} : q \in Reqs \ {r} }

\* Mutant: the foreign-key check of an insert does not wait for an open
\* transaction that deleted the referenced row.
PendingDeletedFields_NoWait(r) == {}

\* Field rows deleted by an open transaction of another slot: a foreign-key
\* check against such a row waits.
PendingDeletedFields(r) ==
  UNION { IF pc[q] = "rfTxCreate" THEN loc[q].deletedFields ELSE {} : q \in Reqs \ {r} }

\* Field rows referenced by value rows an open transaction of another slot
\* inserted: deleting such a row waits.
PendingReferencedFields(r) ==
  UNION { IF pc[q] = "piTxCommit" /\ loc[q].sanitizedFields.kind = "array"
          THEN {loc[q].txValues[k].fieldId : k \in 1..Len(loc[q].txValues)}
          ELSE {} : q \in Reqs \ {r} }

\* Ids of the committed value rows of an item.
ValueIds(id) == {itemFieldValues[id][k].id : k \in 1..Len(itemFieldValues[id])}

\* Value rows deleted by an open transaction of another slot: a delete of
\* such a row waits.
PendingDeletedValues(r) ==
  UNION { IF InFieldsTx(q) THEN loc[q].deletedValues
          ELSE IF pc[q] \in {"piTxCreate", "piTxCommit"} /\ loc[q].sanitizedFields.kind = "array"
          THEN ValueIds(req[q].itemId)
          ELSE {} : q \in Reqs \ {r} }

(* ------------------------------------------------------ reads of an item *)

\* Mutant: a dirty read, the item row and the value rows as the statements
\* of an open transaction have left them so far.
DirtyItem(id) ==
  IF \E q \in Reqs : InItemTx(q) /\ req[q].itemId = id
  THEN LET q == CHOOSE q \in Reqs : InItemTx(q) /\ req[q].itemId = id
       IN [row |-> [items[id] EXCEPT !.customId = loc[q].txItem.customId,
                                     !.version = loc[q].txItem.version],
           values |-> IF pc[q] = "piTxDelete" \/ loc[q].sanitizedFields.kind # "array"
                      THEN itemFieldValues[id] ELSE loc[q].txValues]
  ELSE [row |-> items[id], values |-> itemFieldValues[id]]

\* prisma.item.findUnique({ include: { fieldValues: { include: { field } } } })
\* by the shared client: the committed item row and its committed values.
FindItem(id) == [row |-> items[id], values |-> itemFieldValues[id]]

VersionConflictItem == "Item has been modified by someone else."
VersionConflictInventory == "Inventory has been modified by someone else."
\* Mutant: the duplicate answer reuses the version-conflict message.
DuplicateCustomId_SameMessage == "Item has been modified by someone else."

DuplicateCustomId == "Custom ID already exists in this inventory. Please choose another value."

(* ------------------------------------------------- GET /api/items/:id *)

ItemIdInputs == {1, 2, 3, 99}

GetItem(r) ==
  /\ CanStart(r)
  /\ \E id \in ItemIdInputs :
       /\ req' = [req EXCEPT ![r] = [op |-> "getItem", n |-> started + 1, itemId |-> id]]
       /\ IF id \notin DOMAIN items
          THEN Reply(r, 404, "Item not found", NoBody)
          ELSE LET item == FindItem(id)
               IN Reply(r, 200, "", ItemJson(id, item.row, item.values))
  /\ loc' = [loc EXCEPT ![r] = NoLoc]
  /\ started' = started + 1
  /\ UNCHANGED store

(* ----------------------------------------------- PATCH /api/items/:id *)

NoFields == [kind |-> "undefined", elems |-> <<>>]
Fields(list) == [kind |-> "array", elems |-> list]

Entry(fieldId, vs, vn, vb, vl) ==
  [fieldId |-> fieldId, valueString |-> vs, valueNumber |-> vn,
   valueBoolean |-> vb, valueLink |-> vl]

ItemBody(customId, fields) == [customId |-> customId, fields |-> fields]

\* The request bodies the clients send to PATCH /api/items/:id, by item.
ItemUpdateBodies(id) ==
  CASE id = 1 ->
         { ItemBody(Undef, NoFields),
           ItemBody(Str("X-1"), NoFields),
           ItemBody(Str("LP-000002"), NoFields),
           ItemBody(Undef, Fields(<<>>)),
           ItemBody(Undef, Fields(<<Entry(1, Undef, Num(7), Undef, Undef)>>)),
           ItemBody(Undef, Fields(<<Entry(1, Undef, Str("7"), Null, Undef)>>)),
           ItemBody(Str("X-1"), Fields(<<Entry(1, Undef, Num(7), Undef, Undef),
                                          Entry(2, Str("a "), Undef, Undef, Undef)>>)),
           ItemBody(Undef, Fields(<<Entry(9, Undef, Num(7), Undef, Undef)>>)),
           ItemBody(Undef, Fields(<<Entry(1, Str("x"), Undef, Undef, Undef)>>)),
           ItemBody(Undef, Fields(<<Entry(1, Undef, Num(7), Undef, Undef),
                                    Entry(1, Undef, Num(8), Undef, Undef)>>)) }
    [] id = 2 ->
         { ItemBody(Str("X-1"), NoFields),
           ItemBody(Str("LP-000001"), Fields(<<Entry(2, Str("b"), Undef, Undef, Undef)>>)) }
    [] id = 3 ->
         { ItemBody(Str("LP-000001"), Fields(<<Entry(1, Undef, Num(3), Undef, Undef)>>)) }
    [] OTHER -> { ItemBody(Undef, NoFields) }

VersionInputs == {1, 2}

\* The slot a field of the given type uses (the item page sends the other
\* slots as null).
ActiveSlot(row, type) ==
  CASE type \in {"SINGLE_LINE_TEXT", "MULTI_LINE_TEXT"} -> row.valueString
    [] type = "NUMBER" -> row.valueNumber
    [] type = "BOOLEAN" -> row.valueBoolean
    [] type = "LINK" -> row.valueLink
    [] OTHER -> Null

\* fields.map(...) of the handler: every slot is kept only when it has the
\* type of its column, and is null otherwise.
SanitizeEntry(field) ==
  [fieldId |-> field.fieldId,
   valueString |-> Coalesce(field.valueString, Null),
   valueNumber |-> IF field.valueNumber.kind = "number" THEN field.valueNumber ELSE Null,
   valueBoolean |-> IF field.valueBoolean.kind = "boolean" THEN field.valueBoolean ELSE Null,
   valueLink |-> Coalesce(field.valueLink, Null)]

sanitizedFields(fields) ==
  IF fields.kind = "array"
  THEN [kind |-> "array", elems |-> [k \in 1..Len(fields.elems) |-> SanitizeEntry(fields.elems[k])]]
  ELSE [kind |-> "null", elems |-> <<>>]

\* The entries with at least one slot that is not null.
HasValue(field) ==
  \/ field.valueString # Null
  \/ field.valueNumber # Null
  \/ field.valueBoolean # Null
  \/ field.valueLink # Null

\* Every entry kept, the ones without a value too.
valuesToCreate_KeepAll(list) == list

RECURSIVE valuesToCreate(_)
valuesToCreate(list) ==
  IF list = <<>> THEN <<>>
  ELSE IF HasValue(Head(list)) THEN <<Head(list)>> \o valuesToCreate(Tail(list))
  ELSE valuesToCreate(Tail(list))

\* Mutant: a stale version is accepted.
VersionMatches_AcceptStale(version, current) == version <= current.version

\* The version test of the two PATCH handlers.
VersionMatches(version, current) == version = current.version

\* findUnique, the not-found and version tests, and the sanitizing of the
\* submitted fields: everything up to the await of prisma.$transaction.
PatchItemFind(r) ==
  /\ CanStart(r)
  /\ \E id \in ItemIdInputs, version \in VersionInputs : \E body \in ItemUpdateBodies(id) :
       /\ req' = [req EXCEPT ![r] = [op |-> "patchItem", n |-> started + 1, itemId |-> id, version |-> version,
                                     customId |-> body.customId, fields |-> body.fields]]
       /\ IF id \notin DOMAIN items
          THEN /\ Reply(r, 404, "Item not found", NoBody)
               /\ loc' = [loc EXCEPT ![r] = NoLoc]
          ELSE LET current == FindItem(id)
               IN IF ~VersionMatches(version, current.row)
                  THEN /\ Reply(r, 409, VersionConflictItem,
                                ItemJson(id, current.row, current.values))
                       /\ loc' = [loc EXCEPT ![r] = NoLoc]
                  ELSE /\ pc' = [pc EXCEPT ![r] = "piTxUpdate"]
                       /\ resp' = [resp EXCEPT ![r] = NoResp]
                       /\ loc' = [loc EXCEPT ![r] =
                                    [current |-> current.row,
                                     sanitizedFields |-> sanitizedFields(body.fields),
                                     txItem |-> current.row,
                                     txValues |-> <<>>]]
  /\ started' = started + 1
  /\ UNCHANGED store

\* The customId tx.item.update writes.
UpdateCustomId(customId, current) ==
  IF Nullish(customId) THEN current.customId ELSE customId.str

\* Mutant: the version is written back as it was read.
IncrementVersion_Forgotten(stored) == stored.version

\* The version tx.item.update writes: { increment: 1 } of the stored row.
IncrementVersion(stored) == stored.version + 1

\* Mutant: no unique index.
CustomIdTaken_NoIndex(inv, customId, except) == FALSE

\* The unique index on (inventoryId, customId): another row holds the key.
CustomIdTaken(inv, customId, except) ==
  \E j \in DOMAIN items \ {except} :
    items[j].inventoryId = inv /\ items[j].customId = customId

\* tx.item.update: takes the row lock, checks the unique index when the key
\* changes, and writes customId and version + 1 into the transaction.
PatchItemTxUpdate(r) ==
  /\ pc[r] = "piTxUpdate"
  /\ LET id == req[r].itemId
         inv == items[id].inventoryId
         customId == UpdateCustomId(req[r].customId, loc[r].current)
     IN /\ \A q \in Reqs \ {r} : ~(InItemTx(q) /\ req[q].itemId = id)
        /\ customId # items[id].customId => customId \notin InDoubtCustomIds(r, inv)
        /\ IF customId # items[id].customId /\ CustomIdTaken(inv, customId, id)
           THEN /\ Reply(r, 409, DuplicateCustomId, NoBody)
                /\ loc' = [loc EXCEPT ![r] = NoLoc]
           ELSE /\ loc' = [loc EXCEPT ![r].txItem =
                             [items[id] EXCEPT !.customId = customId,
                                               !.version = IncrementVersion(items[id])]]
                /\ pc' = [pc EXCEPT ![r] =
                            IF loc[r].sanitizedFields.kind = "array"
                            THEN "piTxDelete" ELSE "piTxCommit"]
                /\ UNCHANGED resp
  /\ UNCHANGED <<store, req, started>>

\* tx.itemFieldValue.deleteMany({ where: { itemId } })
PatchItemTxDelete(r) ==
  /\ pc[r] = "piTxDelete"
  /\ ValueIds(req[r].itemId) \cap PendingDeletedValues(r) = {}
  /\ loc' = [loc EXCEPT ![r].txValues = <<>>]
  /\ pc' = [pc EXCEPT ![r] =
              IF valuesToCreate(loc[r].sanitizedFields.elems) # <<>>
              THEN "piTxCreate" ELSE "piTxCommit"]
  /\ UNCHANGED <<store, req, resp, started>>

\* tx.itemFieldValue.createMany: every row must reference an InventoryField
\* row (ItemFieldValue_fieldId_fkey); a violation is not P2002, so the outer
\* catch answers 500 and the transaction is rolled back.
PatchItemTxCreate(r) ==
  /\ pc[r] = "piTxCreate"
  /\ LET rows == valuesToCreate(loc[r].sanitizedFields.elems)
         refs == {rows[k].fieldId : k \in 1..Len(rows)}
     IN /\ refs \cap PendingDeletedFields(r) = {}
        /\ IF refs \subseteq DOMAIN inventoryFields
           THEN /\ loc' = [loc EXCEPT ![r].txValues = rows]
                /\ pc' = [pc EXCEPT ![r] = "piTxCommit"]
                /\ UNCHANGED resp
           ELSE /\ Reply(r, 500, "Failed to update item", NoBody)
                /\ loc' = [loc EXCEPT ![r] = NoLoc]
  /\ UNCHANGED <<store, req, started>>

\* The rows createMany inserted, with the ids the client generated for them.
WithIds(rows, first) ==
  [k \in 1..Len(rows) |->
     ValueRow(first + k - 1, rows[k].fieldId, rows[k].valueString, rows[k].valueNumber,
              rows[k].valueBoolean, rows[k].valueLink)]

\* tx.item.findUniqueOrThrow, the commit of the transaction and res.json.
PatchItemTxCommit(r) ==
  /\ pc[r] = "piTxCommit"
  /\ LET id == req[r].itemId
         values == IF loc[r].sanitizedFields.kind = "array"
                   THEN WithIds(loc[r].txValues, nextValueId) ELSE itemFieldValues[id]
     IN /\ items' = [items EXCEPT ![id] = loc[r].txItem]
        /\ itemFieldValues' = [itemFieldValues EXCEPT ![id] = values]
        /\ nextValueId' = IF loc[r].sanitizedFields.kind = "array"
                          THEN nextValueId + Len(loc[r].txValues) ELSE nextValueId
        /\ snapshots' = [snapshots EXCEPT ![id] = @ \cup {ItemJson(id, loc[r].txItem, values)}]
        /\ Reply(r, 200, "", ItemJson(id, loc[r].txItem, values))
  /\ loc' = [loc EXCEPT ![r] = NoLoc]
  /\ UNCHANGED <<inventories, inventoryTags, tags, inventoryFields, nextFieldId,
                 customIdElements, req, started>>

(* ------------------------------------------ generateCustomIdForInventory *)

\* Number.prototype.toString() of a natural number.
Digit(d) == CASE d = 0 -> "0" [] d = 1 -> "1" [] d = 2 -> "2" [] d = 3 -> "3" [] d = 4 -> "4"
              [] d = 5 -> "5" [] d = 6 -> "6" [] d = 7 -> "7" [] d = 8 -> "8" [] d = 9 -> "9"

RECURSIVE NumberToString(_)
NumberToString(n) == IF n < 10 THEN Digit(n) ELSE NumberToString(n \div 10) \o Digit(n % 10)

\* String.prototype.padStart(width, "0")
RECURSIVE padStart(_, _)
padStart(str, width) == IF Len(str) >= width THEN str ELSE padStart("0" \o str, width)

\* element.numberWidth ?? standard
Width(element, standard) ==
  IF Nullish(element.numberWidth) THEN standard ELSE element.numberWidth.num

\* The values the random sources and the clock can give, as the handler
\* formats them.
Random20Bits == {"0", "FFFFF"}
Random32Bits == {"0", "7FFFFFFF"}
Random6Digits == {0, 999999}
Random9Digits == {7, 999999999}
Guids == {"3f2b8c1e-0000-4000-8000-000000000001"}
IsoDateTimes == {"20260101T000000"}
\* The fallback without its literal prefix.
FallbackIds_NoPrefix == {"K3J9QZ", "I"}

\* `INV-${Math.random().toString(36).slice(2, 8).toUpperCase()}`
FallbackIds == {"INV-K3J9QZ", "INV-I"}

\* The strings one element can render to.
Part(element, nextSequence) ==
  CASE element.type = "FIXED_TEXT" ->
         {IF Nullish(element.fixedText) THEN "" ELSE element.fixedText.str}
    [] element.type = "RANDOM_20_BITS" -> Random20Bits
    [] element.type = "RANDOM_32_BITS" -> Random32Bits
    [] element.type = "RANDOM_6_DIGITS" ->
         {padStart(NumberToString(v), Width(element, 6)) : v \in Random6Digits}
    [] element.type = "RANDOM_9_DIGITS" ->
         {padStart(NumberToString(v), Width(element, 9)) : v \in Random9Digits}
    [] element.type = "GUID" -> Guids
    [] element.type = "DATETIME" -> IsoDateTimes
    [] element.type = "SEQUENCE" -> {padStart(NumberToString(nextSequence), Width(element, 6))}
    [] OTHER -> {""}

\* parts.join(""): the strings the elements, in the order given, can render to.
RECURSIVE Join(_, _)
Join(elements, nextSequence) ==
  IF elements = <<>> THEN {""}
  ELSE {a \o b : a \in Part(Head(elements), nextSequence),
                 b \in Join(Tail(elements), nextSequence)}

\* findMany({ orderBy: { orderIndex: "asc" } }): rows by ascending orderIndex,
\* rows of equal orderIndex in insertion order.
RECURSIVE Insert(_, _)
Insert(row, sorted) ==
  IF sorted = <<>> THEN <<row>>
  ELSE IF row.orderIndex < Head(sorted).orderIndex THEN <<row>> \o sorted
  ELSE <<Head(sorted)>> \o Insert(row, Tail(sorted))

\* The rows as they were inserted, unordered.
OrderByOrderIndex_InsertionOrder(rows) == rows

RECURSIVE OrderByOrderIndex(_)
OrderByOrderIndex(rows) ==
  IF rows = <<>> THEN <<>>
  ELSE Insert(rows[Len(rows)], OrderByOrderIndex(SubSeq(rows, 1, Len(rows) - 1)))

\* prisma.item.count({ where: { inventoryId } })
CountItems(inv) == Cardinality({j \in DOMAIN items : items[j].inventoryId = inv})

\* The generator with the item count itself taken as the next sequence number.
generateCustomId_CountAsSequence(elements, itemsCount) == Join(elements, itemsCount)

\* The identifiers generateCustomIdForInventory can return for the elements
\* and the item count it read.
generateCustomId(elements, itemsCount) == Join(elements, itemsCount + 1)

(* ------------------------------------ POST /api/inventories/:id/items *)

CreateItemBodies ==
  { [inventoryId |-> Office, customId |-> Undef, createdByEmail |-> Undef],
    [inventoryId |-> Office, customId |-> Str("LP-000001"), createdByEmail |-> Undef],
    [inventoryId |-> Office, customId |-> Str("X-1"), createdByEmail |-> Undef],
    [inventoryId |-> Books, customId |-> Str("LP-000001"), createdByEmail |-> Undef],
    [inventoryId |-> Books, customId |-> Null, createdByEmail |-> Str("")],
    [inventoryId |-> "missing", customId |-> Undef, createdByEmail |-> Undef],
    [inventoryId |-> Office, customId |-> Undef, createdByEmail |-> Str("nobody@example.com")] }

\* createdByEmail || "demo@example.com"
Email(createdByEmail) ==
  IF Nullish(createdByEmail) \/ createdByEmail.str = "" THEN "demo@example.com"
  ELSE createdByEmail.str

\* The two findUnique calls (inventory, user); with a client-supplied
\* identifier the handler goes on to item.create, else to the generator.
CreateItemFind(r) ==
  /\ CanStart(r)
  /\ \E body \in CreateItemBodies :
       /\ req' = [req EXCEPT ![r] = [op |-> "createItem", n |-> started + 1, inventoryId |-> body.inventoryId,
                                     customId |-> body.customId]]
       /\ IF body.inventoryId \notin InvIds
          THEN /\ Reply(r, 404, "Inventory not found", NoBody)
               /\ loc' = [loc EXCEPT ![r] = NoLoc]
          ELSE IF Email(body.createdByEmail) \notin Users
          THEN /\ Reply(r, 404, "User not found", NoBody)
               /\ loc' = [loc EXCEPT ![r] = NoLoc]
          ELSE /\ resp' = [resp EXCEPT ![r] = NoResp]
               /\ IF Nullish(body.customId)
                  THEN /\ pc' = [pc EXCEPT ![r] = "ciElements"]
                       /\ loc' = [loc EXCEPT ![r] = [generatedId |-> "", elements |-> <<>>, composed |-> 0]]
                  ELSE /\ pc' = [pc EXCEPT ![r] = "ciCreate"]
                       /\ loc' = [loc EXCEPT ![r] = [generatedId |-> body.customId.str,
                                                     elements |-> <<>>, composed |-> 0]]
  /\ started' = started + 1
  /\ UNCHANGED store

\* generateCustomIdForInventory, the findMany of the elements: with none the
\* fallback identifier is returned at once.
CreateItemElements(r) ==
  /\ pc[r] = "ciElements"
  /\ LET elements == OrderByOrderIndex(customIdElements[req[r].inventoryId])
     IN IF elements = <<>>
        THEN \E id \in FallbackIds :
               /\ loc' = [loc EXCEPT ![r].generatedId = id, ![r].composed = loc[r].composed + 1]
               /\ pc' = [pc EXCEPT ![r] = "ciCreate"]
        ELSE /\ loc' = [loc EXCEPT ![r].elements = elements]
             /\ pc' = [pc EXCEPT ![r] = "ciCount"]
  /\ UNCHANGED <<store, req, resp, started>>

\* generateCustomIdForInventory, the item count and the rendering.
CreateItemCount(r) ==
  /\ pc[r] = "ciCount"
  /\ \E id \in generateCustomId(loc[r].elements, CountItems(req[r].inventoryId)) :
       loc' = [loc EXCEPT ![r].generatedId = id, ![r].composed = loc[r].composed + 1]
  /\ pc' = [pc EXCEPT ![r] = "ciCreate"]
  /\ UNCHANGED <<store, req, resp, started>>

\* A creation that on P2002 runs the generator again instead of answering.
CreateItemCreate_Retrying(r) ==
  /\ pc[r] = "ciCreate"
  /\ LET inv == req[r].inventoryId
         id == Cardinality(DOMAIN items) + 1
     IN /\ loc[r].generatedId \notin InDoubtCustomIds(r, inv)
        /\ IF CustomIdTaken(inv, loc[r].generatedId, id)
           THEN /\ pc' = [pc EXCEPT ![r] = "ciElements"]
                /\ UNCHANGED <<resp, items, itemFieldValues, snapshots>>
           ELSE /\ items' = [j \in DOMAIN items \cup {id} |->
                               IF j = id
                               THEN [inventoryId |-> inv, customId |-> loc[r].generatedId,
                                     version |-> 1]
                               ELSE items[j]]
                /\ itemFieldValues' = [j \in DOMAIN items \cup {id} |->
                                         IF j = id THEN <<>> ELSE itemFieldValues[j]]
                /\ snapshots' = [j \in DOMAIN items \cup {id} |->
                                   IF j = id
                                   THEN {[id |-> id, inventoryId |-> inv,
                                          customId |-> loc[r].generatedId, version |-> 1,
                                          fields |-> <<>>]}
                                   ELSE snapshots[j]]
                /\ Reply(r, 201, "", [id |-> id, customId |-> loc[r].generatedId])
  /\ UNCHANGED <<inventories, inventoryTags, tags, inventoryFields, nextFieldId,
                 nextValueId, customIdElements, req, loc, started>>

\* prisma.item.create under Item_inventoryId_customId_key: P2002 is answered
\* with 409 and no row is inserted.
CreateItemCreate(r) ==
  /\ pc[r] = "ciCreate"
  /\ LET inv == req[r].inventoryId
         id == Cardinality(DOMAIN items) + 1
     IN /\ loc[r].generatedId \notin InDoubtCustomIds(r, inv)
        /\ IF CustomIdTaken(inv, loc[r].generatedId, id)
           THEN /\ Reply(r, 409, DuplicateCustomId, NoBody)
                /\ UNCHANGED <<items, itemFieldValues, snapshots>>
           ELSE /\ items' = [j \in DOMAIN items \cup {id} |->
                               IF j = id
                               THEN [inventoryId |-> inv, customId |-> loc[r].generatedId,
                                     version |-> 1]
                               ELSE items[j]]
                /\ itemFieldValues' = [j \in DOMAIN items \cup {id} |->
                                         IF j = id THEN <<>> ELSE itemFieldValues[j]]
                /\ snapshots' = [j \in DOMAIN items \cup {id} |->
                                   IF j = id
                                   THEN {[id |-> id, inventoryId |-> inv,
                                          customId |-> loc[r].generatedId, version |-> 1,
                                          fields |-> <<>>]}
                                   ELSE snapshots[j]]
                /\ Reply(r, 201, "", [id |-> id, customId |-> loc[r].generatedId])
  /\ UNCHANGED <<inventories, inventoryTags, tags, inventoryFields, nextFieldId,
                 nextValueId, customIdElements, req, loc, started>>

(* ----------------------------------------- PATCH /api/inventories/:id *)

NoTags == [kind |-> "undefined", elems |-> <<>>]
Tags(list) == [kind |-> "array", elems |-> list]

InventoryBody(title, description, category, isPublic, imageUrl, tagList) ==
  [title |-> title, description |-> description, category |-> category,
   isPublic |-> isPublic, imageUrl |-> imageUrl, tags |-> tagList]

\* The request bodies the clients send to PATCH /api/inventories/:id, by
\* inventory.
InventoryUpdateBodies(id) ==
  IF id = Office
  THEN { InventoryBody(Undef, Undef, Undef, Undef, Undef, NoTags),
         InventoryBody(Str("Laptops"), Undef, Undef, Undef, Undef, NoTags),
         InventoryBody(Undef, Str("All laptops."), Undef, Bool(TRUE), Undef, NoTags),
         InventoryBody(Undef, Undef, Str("OTHER"), Str("yes"), Null, NoTags),
         InventoryBody(Undef, Undef, Undef, Undef, Str("http://img/1.png"), NoTags),
         InventoryBody(Undef, Undef, Undef, Undef, Undef, Tags(<<>>)),
         InventoryBody(Undef, Undef, Undef, Undef, Undef, Tags(<<" office", " ", "hr", "hr">>)) }
  ELSE { InventoryBody(Str("Books"), Undef, Undef, Undef, Undef, Tags(<<"hr">>)) }

InventoryIdInputs == InvIds \cup {"missing"}

\* The JSON the inventory routes send (description ?? "").
InventoryJson(id, row, tagNames) ==
  [id |-> id, title |-> row.title,
   description |-> IF Nullish(row.description) THEN "" ELSE row.description.str,
   category |-> row.category, isPublic |-> row.isPublic, version |-> row.version,
   imageUrl |-> row.imageUrl, tags |-> tagNames]

\* Array.from(new Set(tags.map(trim).filter(nonempty))), or null.
normalizedTags(tagList) ==
  IF tagList.kind = "array"
  THEN [kind |-> "array",
        names |-> {Trim(tagList.elems[k]) : k \in 1..Len(tagList.elems)} \ {""}]
  ELSE [kind |-> "null", names |-> {}]

\* The data of tx.inventory.update: a submitted attribute, else the value of
\* the row the handler read before the transaction; version + 1 of the
\* stored row.
InventoryUpdateData(body, current, stored) ==
  [title |-> IF Nullish(body.title) THEN current.title ELSE body.title.str,
   description |-> Coalesce(body.description, current.description),
   category |-> IF Nullish(body.category) THEN current.category ELSE body.category.str,
   isPublic |-> IF body.isPublic.kind = "boolean" THEN body.isPublic.bool ELSE current.isPublic,
   imageUrl |-> IF body.imageUrl.kind = "string" THEN body.imageUrl ELSE current.imageUrl,
   version |-> IncrementVersion(stored)]

\* findUnique, the not-found and the version tests.
PatchInventoryFind(r) ==
  /\ CanStart(r)
  /\ \E id \in InventoryIdInputs, version \in VersionInputs :
     \E body \in InventoryUpdateBodies(id) :
       /\ req' = [req EXCEPT ![r] = [op |-> "patchInventory", n |-> started + 1, inventoryId |-> id,
                                     version |-> version, body |-> body]]
       /\ IF id \notin InvIds
          THEN /\ Reply(r, 404, "Inventory not found", NoBody)
               /\ loc' = [loc EXCEPT ![r] = NoLoc]
          ELSE IF ~VersionMatches(version, inventories[id])
          THEN /\ Reply(r, 409, VersionConflictInventory,
                        InventoryJson(id, inventories[id], inventoryTags[id]))
               /\ loc' = [loc EXCEPT ![r] = NoLoc]
          ELSE /\ pc' = [pc EXCEPT ![r] = "pvTx"]
               /\ resp' = [resp EXCEPT ![r] = NoResp]
               /\ loc' = [loc EXCEPT ![r] = [current |-> inventories[id]]]
  /\ started' = started + 1
  /\ UNCHANGED store

\* prisma.$transaction: tx.inventory.update takes the row lock first, so the
\* transactions on one inventory run one after the other; the tag rows are
\* replaced by the normalized names; findUniqueOrThrow and res.json.
PatchInventoryTx(r) ==
  /\ pc[r] = "pvTx"
  /\ LET id == req[r].inventoryId
         data == InventoryUpdateData(req[r].body, loc[r].current, inventories[id])
         names == normalizedTags(req[r].body.tags)
         tagNames == IF names.kind = "array" THEN names.names ELSE inventoryTags[id]
     IN /\ inventories' = [inventories EXCEPT ![id] = data]
        /\ inventoryTags' = [inventoryTags EXCEPT ![id] = tagNames]
        /\ tags' = tags \cup names.names
        /\ Reply(r, 200, "", InventoryJson(id, data, tagNames))
  /\ UNCHANGED <<items, itemFieldValues, inventoryFields, nextFieldId, nextValueId,
                 customIdElements, req, loc, started, snapshots>>

(* ------------------------------------------- GET /api/inventories/:id *)

GetInventory(r) ==
  /\ CanStart(r)
  /\ \E id \in InventoryIdInputs :
       /\ req' = [req EXCEPT ![r] = [op |-> "getInventory", n |-> started + 1, inventoryId |-> id]]
       /\ IF id \notin InvIds
          THEN Reply(r, 404, "Inventory not found", NoBody)
          ELSE Reply(r, 200, "", InventoryJson(id, inventories[id], inventoryTags[id]))
  /\ loc' = [loc EXCEPT ![r] = NoLoc]
  /\ started' = started + 1
  /\ UNCHANGED store

(* ------------------------------------- PUT /api/inventories/:id/fields *)

FieldTypes == {"SINGLE_LINE_TEXT", "MULTI_LINE_TEXT", "NUMBER", "LINK", "BOOLEAN"}

\* limits[type] of the handler: 3 for every recognized type, undefined else.
Limit == 3

\* Mutant: the cap is one too high.
limits_OffByOne(type) == IF type \in FieldTypes THEN Limit + 1 ELSE 0

limits(type) == IF type \in FieldTypes THEN Limit ELSE 0

FieldPayload(type, title, orderIndex) ==
  [type |-> type, title |-> title, description |-> Str(" "), showInTable |-> Undef,
   orderIndex |-> orderIndex]

NoList == [kind |-> "undefined", elems |-> <<>>]
List(elems) == [kind |-> "array", elems |-> elems]

\* The request bodies the clients send to PUT /api/inventories/:id/fields,
\* by inventory.
FieldListInputs(id) ==
  IF id = Office
  THEN { NoList,
         List(<<>>),
         List(<<FieldPayload("NUMBER", Str(" qty "), Undef)>>),
         List(<<FieldPayload("NUMBER", Str("n1"), Undef), FieldPayload("NUMBER", Str("n2"), Undef),
                FieldPayload("NUMBER", Str("n3"), Undef)>>),
         List(<<FieldPayload("NUMBER", Str("n1"), Undef), FieldPayload("NUMBER", Str("n2"), Undef),
                FieldPayload("NUMBER", Str("n3"), Undef), FieldPayload("NUMBER", Str("n4"), Undef)>>),
         List(<<FieldPayload("SINGLE_LINE_TEXT", Str("name"), Undef),
                FieldPayload("NUMBER", Str("  "), Undef)>>),
         List(<<FieldPayload("BOOLEAN", Str("ok"), Undef),
                FieldPayload("DATE", Str("when"), Undef)>>),
         List(<<FieldPayload("LINK", Str("url"), Num(5)),
                FieldPayload("BOOLEAN", Str("ok"), Num(2))>>) }
  ELSE { List(<<FieldPayload("MULTI_LINE_TEXT", Str("notes"), Undef)>>) }

\* !field.title || !field.title.trim()
BlankTitle(title) == title.kind # "string" \/ Trim(title.str) = ""

\* The for loop over the submitted fields: the first failure it meets, else
\* "ok".  counters is the number of fields of each type seen so far.
RECURSIVE Validate(_, _)
Validate(fields, counters) ==
  IF fields = <<>> THEN "ok"
  ELSE LET field == Head(fields)
           type == field.type
       IN IF limits(type) = 0 THEN "Unsupported field type"
          ELSE IF BlankTitle(field.title) THEN "Field title is required for all fields."
          ELSE IF counters[type] + 1 > limits(type) THEN "Too many fields of type"
          ELSE Validate(Tail(fields), [counters EXCEPT ![type] = counters[type] + 1])

ValidateFields(fields) == Validate(fields, [t \in FieldTypes |-> 0])

\* fields.map((field, index) => ...) of the handler.
sanitized(inv, fields) ==
  [index \in 1..Len(fields) |->
     [inventoryId |-> inv,
      type |-> fields[index].type,
      title |-> Trim(fields[index].title.str),
      description |-> IF fields[index].description.kind = "string"
                         /\ Trim(fields[index].description.str) # ""
                      THEN Str(Trim(fields[index].description.str)) ELSE Null,
      showInTable |-> fields[index].showInTable.kind = "boolean" /\ fields[index].showInTable.bool,
      orderIndex |-> IF fields[index].orderIndex.kind = "number"
                     THEN fields[index].orderIndex.num ELSE index - 1]]

\* Ids of the committed InventoryField rows of an inventory.
FieldsOf(inv) == {f \in DOMAIN inventoryFields : inventoryFields[f].inventoryId = inv}

\* Ids of the committed value rows that reference one of the fields.
ValuesOfFields(fieldIds) ==
  UNION { {itemFieldValues[j][k].id :
             k \in {k \in 1..Len(itemFieldValues[j]) : itemFieldValues[j][k].fieldId \in fieldIds}}
          : j \in DOMAIN items }

\* The JSON of findMany({ orderBy: { orderIndex: "asc" } }) over the fields.
RECURSIVE AsSeq(_)
AsSeq(fieldIds) ==
  IF fieldIds = {} THEN <<>>
  ELSE LET least == CHOOSE f \in fieldIds : \A g \in fieldIds : f <= g
       IN <<[inventoryFields[least] EXCEPT !.inventoryId = least]>> \o AsSeq(fieldIds \ {least})

FieldsJson(inv) ==
  LET rows == OrderByOrderIndex(AsSeq(FieldsOf(inv)))
  IN [k \in 1..Len(rows) |->
        [id |-> rows[k].inventoryId, type |-> rows[k].type, title |-> rows[k].title,
         description |-> rows[k].description, showInTable |-> rows[k].showInTable,
         orderIndex |-> rows[k].orderIndex]]

\* findUnique of the inventory, the empty-list test and the validation loop.
ReplaceFieldsFind(r) ==
  /\ CanStart(r)
  /\ \E id \in InventoryIdInputs : \E fields \in FieldListInputs(id) :
       /\ req' = [req EXCEPT ![r] = [op |-> "replaceFields", n |-> started + 1, inventoryId |-> id,
                                     fields |-> fields]]
       /\ IF id \notin InvIds
          THEN /\ Reply(r, 404, "Inventory not found", NoBody)
               /\ loc' = [loc EXCEPT ![r] = NoLoc]
          ELSE IF fields.kind # "array" \/ fields.elems = <<>>
          THEN /\ pc' = [pc EXCEPT ![r] = "rfDeleteAll"]
               /\ resp' = [resp EXCEPT ![r] = NoResp]
               /\ loc' = [loc EXCEPT ![r] = NoLoc]
          ELSE IF ValidateFields(fields.elems) # "ok"
          THEN /\ Reply(r, 400, ValidateFields(fields.elems), NoBody)
               /\ loc' = [loc EXCEPT ![r] = NoLoc]
          ELSE /\ pc' = [pc EXCEPT ![r] = "rfTxFind"]
               /\ resp' = [resp EXCEPT ![r] = NoResp]
               /\ loc' = [loc EXCEPT ![r] = [sanitized |-> sanitized(id, fields.elems),
                                             existing |-> {}, deletedValues |-> {},
                                             deletedFields |-> {}, waitFor |-> {}]]
  /\ started' = started + 1
  /\ UNCHANGED store

\* The requests inside a replace-fields transaction.
OpenFieldsTx == {req[q].n : q \in {q \in Reqs : pc[q] \in {"rfTxFind", "rfTxDeleteValues",
                                                           "rfTxDeleteFields", "rfTxCreate"}}}

\* prisma.inventoryField.deleteMany({ where: { inventoryId } }) of the empty
\* list: the value rows are not deleted first, so a field that a value row
\* references cannot be deleted (ItemFieldValue_fieldId_fkey is RESTRICT) and
\* the catch answers 500.
ReplaceFieldsDeleteAll(r) ==
  /\ pc[r] = "rfDeleteAll"
  /\ LET inv == req[r].inventoryId
         fieldIds == FieldsOf(inv)
     IN /\ fieldIds \cap (PendingReferencedFields(r) \cup PendingDeletedFields(r)) = {}
        /\ IF ValuesOfFields(fieldIds) # {}
           THEN /\ Reply(r, 500, "Failed to save fields", NoBody)
                /\ UNCHANGED inventoryFields
           ELSE /\ inventoryFields' = [f \in DOMAIN inventoryFields \ fieldIds |-> inventoryFields[f]]
                /\ Reply(r, 200, "", [fields |-> <<>>])
  /\ UNCHANGED <<inventories, inventoryTags, tags, items, itemFieldValues, nextFieldId,
                 nextValueId, customIdElements, req, loc, started, snapshots>>

\* tx.inventoryField.findMany({ where: { inventoryId }, select: { id } })
ReplaceFieldsTxFind(r) ==
  /\ pc[r] = "rfTxFind"
  /\ LET existing == FieldsOf(req[r].inventoryId)
     IN /\ loc' = [loc EXCEPT ![r].existing = existing]
        /\ pc' = [pc EXCEPT ![r] = IF existing # {} THEN "rfTxDeleteValues" ELSE "rfTxCreate"]
  /\ UNCHANGED <<store, req, resp, started>>

\* tx.itemFieldValue.deleteMany({ where: { fieldId: { in: existing } } })
ReplaceFieldsTxDeleteValues(r) ==
  /\ pc[r] = "rfTxDeleteValues"
  /\ LET rows == ValuesOfFields(loc[r].existing)
     IN /\ rows \cap PendingDeletedValues(r) = {}
        /\ loc' = [loc EXCEPT ![r].deletedValues = rows]
  /\ pc' = [pc EXCEPT ![r] = "rfTxDeleteFields"]
  /\ UNCHANGED <<store, req, resp, started>>

\* tx.inventoryField.deleteMany({ where: { inventoryId } }): the rows the
\* statement sees; a value row this transaction did not delete that
\* references one of them makes it fail (500, rolled back).  Rows another
\* open transaction deleted are waited for before the commit.
ReplaceFieldsTxDeleteFields(r) ==
  /\ pc[r] = "rfTxDeleteFields"
  /\ LET fieldIds == FieldsOf(req[r].inventoryId)
     IN /\ fieldIds \cap PendingReferencedFields(r) = {}
        /\ IF ValuesOfFields(fieldIds) \ loc[r].deletedValues # {}
           THEN /\ Reply(r, 500, "Failed to save fields", NoBody)
                /\ loc' = [loc EXCEPT ![r] = NoLoc]
           ELSE /\ loc' = [loc EXCEPT ![r].deletedFields = fieldIds,
                                      ![r].waitFor =
                                        {req[q].n : q \in {q \in Reqs \ {r} :
                                           /\ pc[q] = "rfTxCreate"
                                           /\ loc[q].waitFor = {}
                                           /\ loc[q].deletedFields \cap fieldIds # {}}}]
                /\ pc' = [pc EXCEPT ![r] = "rfTxCreate"]
                /\ UNCHANGED resp
  /\ UNCHANGED <<store, req, started>>

\* tx.inventoryField.createMany({ data: sanitized }) and the commit.
ReplaceFieldsTxCreate(r) ==
  /\ pc[r] = "rfTxCreate"
  /\ loc[r].waitFor \cap OpenFieldsTx = {}
  /\ LET rows == loc[r].sanitized
         kept == DOMAIN inventoryFields \ loc[r].deletedFields
         new == nextFieldId..(nextFieldId + Len(rows) - 1)
     IN /\ inventoryFields' = [f \in kept \cup new |->
                                 IF f \in new THEN rows[f - nextFieldId + 1]
                                 ELSE inventoryFields[f]]
        /\ nextFieldId' = nextFieldId + Len(rows)
        /\ itemFieldValues' =
             [j \in DOMAIN items |->
                FilterSeq(itemFieldValues[j],
                          {row \in Range(itemFieldValues[j]) : row.id \notin loc[r].deletedValues})]
  /\ snapshots' = [j \in DOMAIN items |->
                      snapshots[j] \cup {ItemJson(j, items[j], itemFieldValues'[j])}]
  /\ pc' = [pc EXCEPT ![r] = "rfFind"]
  /\ UNCHANGED <<inventories, inventoryTags, tags, items, nextValueId, customIdElements,
                 req, loc, resp, started>>

\* prisma.inventoryField.findMany({ orderBy: { orderIndex: "asc" } }), res.json
ReplaceFieldsFindUpdated(r) ==
  /\ pc[r] = "rfFind"
  /\ Reply(r, 200, "", [fields |-> FieldsJson(req[r].inventoryId)])
  /\ UNCHANGED <<store, req, loc, started>>

(* ------------------------------------- GET /api/inventories/:id/fields *)

GetFields(r) ==
  /\ CanStart(r)
  /\ \E id \in InventoryIdInputs :
       /\ req' = [req EXCEPT ![r] = [op |-> "getFields", n |-> started + 1, inventoryId |-> id]]
       /\ IF id \notin InvIds
          THEN Reply(r, 404, "Inventory not found", NoBody)
          ELSE Reply(r, 200, "", [fields |-> FieldsJson(id)])
  /\ loc' = [loc EXCEPT ![r] = NoLoc]
  /\ started' = started + 1
  /\ UNCHANGED store

(* ---------------------------------- PUT /api/inventories/:id/custom-id *)

ElementPayload(type, orderIndex, fixedText, numberWidth) ==
  [type |-> type, orderIndex |-> orderIndex, fixedText |-> fixedText,
   numberWidth |-> numberWidth]

\* The request bodies the clients send to PUT /api/inventories/:id/custom-id,
\* by inventory.
ElementListInputs(id) ==
  IF id = Office
  THEN { NoList,
         List(<<>>),
         List(<<ElementPayload("FIXED_TEXT", Undef, Str("INV-"), Undef)>>),
         List(<<ElementPayload("SEQUENCE", Undef, Undef, Num(3))>>),
         List(<<ElementPayload("SEQUENCE", Undef, Null, Num(0))>>),
         List(<<ElementPayload("RANDOM_6_DIGITS", Undef, Undef, Num(-1)),
                ElementPayload("FIXED_TEXT", Undef, Str("-"), Undef),
                ElementPayload("RANDOM_9_DIGITS", Undef, Undef, Undef)>>),
         List(<<ElementPayload("FIXED_TEXT", Num(5), Str("A"), Undef),
                ElementPayload("SEQUENCE", Num(2), Undef, Undef)>>) }
  ELSE { List(<<ElementPayload("GUID", Undef, Undef, Undef)>>) }

\* elements.map((element, index) => ...) of the handler, and the rows
\* createMany inserts for it.
sanitizedElements(elements) ==
  [index \in 1..Len(elements) |->
     ElementRow(elements[index].type,
                IF elements[index].orderIndex.kind = "number"
                THEN elements[index].orderIndex.num ELSE index - 1,
                Coalesce(elements[index].fixedText, Null),
                Coalesce(elements[index].numberWidth, Null))]

\* The JSON of findMany({ orderBy: { orderIndex: "asc" } }) over the elements.
ElementsJson(inv) == OrderByOrderIndex(customIdElements[inv])

\* Requests of other slots whose open transaction deleted element rows of
\* the inventory and holds their row locks: a delete of these rows waits.
HoldingElements(r, inv) ==
  {req[q].n : q \in {q \in Reqs \ {r} : /\ pc[q] = "ceTxCreate"
                                         /\ req[q].inventoryId = inv
                                         /\ loc[q].holds}}

\* The requests inside a custom-id transaction.
OpenElementsTx == {req[q].n : q \in {q \in Reqs : pc[q] = "ceTxCreate"}}

\* findUnique of the inventory, the empty-list test and the sanitizing.
PutCustomIdFind(r) ==
  /\ CanStart(r)
  /\ \E id \in InventoryIdInputs : \E elements \in ElementListInputs(id) :
       /\ req' = [req EXCEPT ![r] = [op |-> "putCustomId", n |-> started + 1,
                                     inventoryId |-> id, elements |-> elements]]
       /\ IF id \notin InvIds
          THEN /\ Reply(r, 404, "Inventory not found", NoBody)
               /\ loc' = [loc EXCEPT ![r] = NoLoc]
          ELSE IF elements.kind # "array" \/ elements.elems = <<>>
          THEN /\ pc' = [pc EXCEPT ![r] = "ceDeleteAll"]
               /\ resp' = [resp EXCEPT ![r] = NoResp]
               /\ loc' = [loc EXCEPT ![r] = [waitFor |-> {}]]
          ELSE /\ pc' = [pc EXCEPT ![r] = "ceTxDelete"]
               /\ resp' = [resp EXCEPT ![r] = NoResp]
               /\ loc' = [loc EXCEPT ![r] =
                            [sanitizedElements |-> sanitizedElements(elements.elems),
                             holds |-> FALSE, waitFor |-> {}]]
  /\ started' = started + 1
  /\ UNCHANGED store

\* prisma.inventoryCustomIdElement.deleteMany of the empty list, one
\* statement that commits by itself.  When an open transaction has deleted
\* the rows the statement sees, it waits for that transaction.
PutCustomIdDeleteAll(r) ==
  /\ pc[r] = "ceDeleteAll"
  /\ LET inv == req[r].inventoryId
     IN IF customIdElements[inv] # <<>> /\ HoldingElements(r, inv) # {}
        THEN /\ loc' = [loc EXCEPT ![r].waitFor = HoldingElements(r, inv)]
             /\ pc' = [pc EXCEPT ![r] = "ceDeleteWait"]
             /\ UNCHANGED <<customIdElements, resp>>
        ELSE /\ customIdElements' = [customIdElements EXCEPT ![inv] = <<>>]
             /\ Reply(r, 200, "", [elements |-> <<>>])
             /\ UNCHANGED loc
  /\ UNCHANGED <<inventories, inventoryTags, tags, items, itemFieldValues, inventoryFields,
                 nextFieldId, nextValueId, req, started, snapshots>>

\* The waiting deleteMany goes on after the commit of the transaction it
\* waited for: the rows it saw are gone, the rows that transaction inserted
\* are not rows it saw, and it deletes nothing.
PutCustomIdDeleteWait(r) ==
  /\ pc[r] = "ceDeleteWait"
  /\ loc[r].waitFor \cap OpenElementsTx = {}
  /\ Reply(r, 200, "", [elements |-> <<>>])
  /\ UNCHANGED <<store, req, loc, started>>

\* tx.inventoryCustomIdElement.deleteMany({ where: { inventoryId } }): takes
\* the locks of the rows it deletes, or waits for the open transaction that
\* deleted them first and then finds nothing to delete.
PutCustomIdTxDelete(r) ==
  /\ pc[r] = "ceTxDelete"
  /\ LET inv == req[r].inventoryId
         waits == customIdElements[inv] # <<>> /\ HoldingElements(r, inv) # {}
     IN loc' = [loc EXCEPT ![r].holds = customIdElements[inv] # <<>> /\ ~waits,
                           ![r].waitFor = IF waits THEN HoldingElements(r, inv) ELSE {}]
  /\ pc' = [pc EXCEPT ![r] = "ceTxCreate"]
  /\ UNCHANGED <<store, req, resp, started>>

\* tx.inventoryCustomIdElement.createMany and the commit.
PutCustomIdTxCreate(r) ==
  /\ pc[r] = "ceTxCreate"
  /\ loc[r].waitFor \cap OpenElementsTx = {}
  /\ LET inv == req[r].inventoryId
         kept == IF loc[r].holds THEN <<>> ELSE customIdElements[inv]
     IN customIdElements' = [customIdElements EXCEPT
                               ![inv] = kept \o loc[r].sanitizedElements]
  /\ pc' = [pc EXCEPT ![r] = "ceFind"]
  /\ UNCHANGED <<inventories, inventoryTags, tags, items, itemFieldValues, inventoryFields,
                 nextFieldId, nextValueId, req, loc, resp, started, snapshots>>

\* prisma.inventoryCustomIdElement.findMany({ orderBy }), res.json
PutCustomIdFindUpdated(r) ==
  /\ pc[r] = "ceFind"
  /\ Reply(r, 200, "", [elements |-> ElementsJson(req[r].inventoryId)])
  /\ UNCHANGED <<store, req, loc, started>>

(* ---------------------------------- GET /api/inventories/:id/custom-id *)

GetCustomIdFind(r) ==
  /\ CanStart(r)
  /\ \E id \in InventoryIdInputs :
       /\ req' = [req EXCEPT ![r] = [op |-> "getCustomId", n |-> started + 1,
                                     inventoryId |-> id]]
       /\ IF id \notin InvIds
          THEN Reply(r, 404, "Inventory not found", NoBody)
          ELSE /\ pc' = [pc EXCEPT ![r] = "gcFind"]
               /\ resp' = [resp EXCEPT ![r] = NoResp]
  /\ loc' = [loc EXCEPT ![r] = NoLoc]
  /\ started' = started + 1
  /\ UNCHANGED store

GetCustomIdFindMany(r) ==
  /\ pc[r] = "gcFind"
  /\ Reply(r, 200, "", [elements |-> ElementsJson(req[r].inventoryId)])
  /\ UNCHANGED <<store, req, loc, started>>

(* -------------------------- GET /api/inventories/:id/custom-id/preview *)

PreviewFind(r) ==
  /\ CanStart(r)
  /\ \E id \in InventoryIdInputs :
       /\ req' = [req EXCEPT ![r] = [op |-> "preview", n |-> started + 1,
                                     inventoryId |-> id]]
       /\ IF id \notin InvIds
          THEN /\ Reply(r, 404, "Inventory not found", NoBody)
               /\ loc' = [loc EXCEPT ![r] = NoLoc]
          ELSE /\ pc' = [pc EXCEPT ![r] = "pwElements"]
               /\ resp' = [resp EXCEPT ![r] = NoResp]
               /\ loc' = [loc EXCEPT ![r] = [elements |-> <<>>]]
  /\ started' = started + 1
  /\ UNCHANGED store

\* generateCustomIdForInventory, the findMany of the elements: with none the
\* fallback identifier is the preview.
PreviewElements(r) ==
  /\ pc[r] = "pwElements"
  /\ LET elements == OrderByOrderIndex(customIdElements[req[r].inventoryId])
     IN IF elements = <<>>
        THEN /\ \E id \in FallbackIds : Reply(r, 200, "", [preview |-> id])
             /\ UNCHANGED loc
        ELSE /\ loc' = [loc EXCEPT ![r].elements = elements]
             /\ pc' = [pc EXCEPT ![r] = "pwCount"]
             /\ UNCHANGED resp
  /\ UNCHANGED <<store, req, started>>

\* A preview that reserves the identifier it shows by inserting an item.
PreviewCount_Persisting(r) ==
  /\ pc[r] = "pwCount"
  /\ LET inv == req[r].inventoryId
         new == Cardinality(DOMAIN items) + 1
     IN \E id \in generateCustomId(loc[r].elements, CountItems(inv)) :
          /\ Reply(r, 200, "", [preview |-> id])
          /\ items' = [j \in DOMAIN items \cup {new} |->
                         IF j = new THEN [inventoryId |-> inv, customId |-> id, version |-> 1]
                         ELSE items[j]]
          /\ itemFieldValues' = [j \in DOMAIN items \cup {new} |->
                                   IF j = new THEN <<>> ELSE itemFieldValues[j]]
          /\ snapshots' = [j \in DOMAIN items \cup {new} |->
                             IF j = new THEN {} ELSE snapshots[j]]
  /\ UNCHANGED <<inventories, inventoryTags, tags, inventoryFields, nextFieldId,
                 nextValueId, customIdElements, req, loc, started>>

\* generateCustomIdForInventory, the item count and the rendering; res.json.
PreviewCount(r) ==
  /\ pc[r] = "pwCount"
  /\ \E id \in generateCustomId(loc[r].elements, CountItems(req[r].inventoryId)) :
       Reply(r, 200, "", [preview |-> id])
  /\ UNCHANGED <<store, req, loc, started>>

(* -------------------------------------- GET /api/inventories/:id/stats *)

TextTypes == {"SINGLE_LINE_TEXT", "MULTI_LINE_TEXT"}

\* The collations String.prototype.localeCompare can run with: the ICU
\* collation of the default locale (lower case before upper case of the same
\* letter, letters in alphabet order), or code-unit order in a runtime built
\* without Intl.
Collations == {"icu", "codeunit"}

\* The place of the strings the statistics compare, by collation.
Rank(str, collation) ==
  CASE str = "a" -> IF collation = "icu" THEN 1 ELSE 6
    [] str = "A" -> IF collation = "icu" THEN 2 ELSE 1
    [] str = "B" -> IF collation = "icu" THEN 3 ELSE 2
    [] str = "C" -> IF collation = "icu" THEN 4 ELSE 3
    [] str = "D" -> IF collation = "icu" THEN 5 ELSE 4
    [] str = "E" -> IF collation = "icu" THEN 6 ELSE 5
    [] str = "name" -> 7
    [] str = "notes" -> 8
    [] str = "qty" -> 9
    [] str = "weight" -> 10

\* a.localeCompare(b)
localeCompare(a, b, collation) ==
  IF Rank(a, collation) < Rank(b, collation) THEN -1
  ELSE IF Rank(a, collation) > Rank(b, collation) THEN 1 ELSE 0

\* The value rows of the items of the inventory, item by item.
RECURSIVE ValueRowsUpTo(_, _)
ValueRowsUpTo(inv, j) ==
  IF j = 0 THEN <<>>
  ELSE ValueRowsUpTo(inv, j - 1)
         \o (IF items[j].inventoryId = inv THEN itemFieldValues[j] ELSE <<>>)

ValueRowsOf(inv) == ValueRowsUpTo(inv, Cardinality(DOMAIN items))

\* include: { field: true }
WithField(rows) ==
  [k \in 1..Len(rows) |->
     [fieldId |-> rows[k].fieldId, field |-> inventoryFields[rows[k].fieldId],
      valueString |-> rows[k].valueString, valueNumber |-> rows[k].valueNumber]]

\* findMany({ where: { item: { inventoryId }, field: { type: "NUMBER" },
\*                     valueNumber: { not: null } }, include: { field } })
numericValues(inv) ==
  LET rows == ValueRowsOf(inv)
  IN WithField(FilterSeq(rows, {row \in Range(rows) :
                                  /\ inventoryFields[row.fieldId].type = "NUMBER"
                                  /\ row.valueNumber # Null}))

\* findMany({ where: { item: { inventoryId }, field: { type: { in: [...] } },
\*                     valueString: { not: null } }, include: { field } })
textValues(inv) ==
  LET rows == ValueRowsOf(inv)
  IN WithField(FilterSeq(rows, {row \in Range(rows) :
                                  /\ inventoryFields[row.fieldId].type \in TextTypes
                                  /\ row.valueString # Null}))

\* The position of the entry of a key in a Map kept in insertion order, 0
\* when the Map has no such key.
IndexOf(map, fieldId) ==
  IF \E k \in 1..Len(map) : map[k].fieldId = fieldId
  THEN CHOOSE k \in 1..Len(map) : map[k].fieldId = fieldId
  ELSE 0

\* The first loop: numericByField after the values, avg holding the sum.
RECURSIVE numericByField(_, _)
numericByField(values, map) ==
  IF values = <<>> THEN map
  ELSE LET value == Head(values)
           num == value.valueNumber.num
           found == IndexOf(map, value.fieldId)
           base == IF found = 0
                   THEN Append(map, [fieldId |-> value.fieldId, title |-> value.field.title,
                                     count |-> 0, min |-> num, max |-> num, avg |-> 0])
                   ELSE map
           k == IF found = 0 THEN Len(base) ELSE found
           stats == [base[k] EXCEPT !.count = @ + 1,
                                    !.min = IF num < @ THEN num ELSE @,
                                    !.max = IF num > @ THEN num ELSE @,
                                    !.avg = @ + num]
       IN numericByField(Tail(values), [base EXCEPT ![k] = stats])

\* The sum left undivided.
Quotient_NotDivided(sum, count) == [num |-> sum, den |-> 1]

\* The quotient of two integers as a fraction in lowest terms.
Quotient(sum, count) ==
  LET RECURSIVE Gcd(_, _)
      Gcd(a, b) == IF b = 0 THEN a ELSE Gcd(b, a % b)
      g == Gcd(IF sum < 0 THEN -sum ELSE sum, count)
  IN [num |-> sum \div g, den |-> count \div g]

\* The second loop: stats.avg = stats.avg / stats.count when count > 0.
Averaged(map) ==
  [k \in 1..Len(map) |->
     IF map[k].count > 0
     THEN [map[k] EXCEPT !.avg = Quotient(map[k].avg, map[k].count)]
     ELSE [map[k] EXCEPT !.avg = Quotient(0, 1)]]

\* Array.prototype.sort((a, b) => a.title.localeCompare(b.title)), stable.
RECURSIVE InsertByTitle(_, _, _)
InsertByTitle(entry, sorted, collation) ==
  IF sorted = <<>> THEN <<entry>>
  ELSE IF localeCompare(entry.title, Head(sorted).title, collation) < 0
  THEN <<entry>> \o sorted
  ELSE <<Head(sorted)>> \o InsertByTitle(entry, Tail(sorted), collation)

RECURSIVE SortByTitle(_, _)
SortByTitle(list, collation) ==
  IF list = <<>> THEN <<>>
  ELSE InsertByTitle(list[Len(list)],
                     SortByTitle(SubSeq(list, 1, Len(list) - 1), collation), collation)

\* The text loop: per field the trimmed strings and how often each was seen,
\* blank ones skipped.
Counted(counts, text) ==
  IF \E k \in 1..Len(counts) : counts[k].value = text
  THEN [k \in 1..Len(counts) |->
          IF counts[k].value = text THEN [counts[k] EXCEPT !.count = @ + 1] ELSE counts[k]]
  ELSE Append(counts, [value |-> text, count |-> 1])

RECURSIVE textByField(_, _)
textByField(values, map) ==
  IF values = <<>> THEN map
  ELSE LET value == Head(values)
           text == Trim(value.valueString.str)
           found == IndexOf(map, value.fieldId)
           base == IF found = 0
                   THEN Append(map, [fieldId |-> value.fieldId, title |-> value.field.title,
                                     counts |-> <<>>])
                   ELSE map
           k == IF found = 0 THEN Len(base) ELSE found
       IN IF text = "" THEN textByField(Tail(values), map)
          ELSE textByField(Tail(values),
                           [base EXCEPT ![k].counts = Counted(base[k].counts, text)])

\* sort((a, b) => b.count - a.count || a.value.localeCompare(b.value))
Before(a, b, collation) ==
  \/ a.count > b.count
  \/ a.count = b.count /\ localeCompare(a.value, b.value, collation) < 0

RECURSIVE InsertTopValue(_, _, _)
InsertTopValue(entry, sorted, collation) ==
  IF sorted = <<>> THEN <<entry>>
  ELSE IF Before(entry, Head(sorted), collation) THEN <<entry>> \o sorted
  ELSE <<Head(sorted)>> \o InsertTopValue(entry, Tail(sorted), collation)

RECURSIVE SortTopValues(_, _)
SortTopValues(list, collation) ==
  IF list = <<>> THEN <<>>
  ELSE InsertTopValue(list[Len(list)],
                      SortTopValues(SubSeq(list, 1, Len(list) - 1), collation), collation)

numericFields(values, collation) ==
  SortByTitle(Averaged(numericByField(values, <<>>)), collation)

\* topValues: the sorted counts, .slice(0, 5).
textFields(values, collation) ==
  LET map == textByField(values, <<>>)
      Slice5(list) == SubSeq(list, 1, IF Len(list) < 5 THEN Len(list) ELSE 5)
  IN SortByTitle([k \in 1..Len(map) |->
                    [fieldId |-> map[k].fieldId, title |-> map[k].title,
                     topValues |-> Slice5(SortTopValues(map[k].counts, collation))]],
                 collation)

\* findUnique of the inventory.
StatsFind(r) ==
  /\ CanStart(r)
  /\ \E id \in InventoryIdInputs : \E collation \in Collations :
       /\ req' = [req EXCEPT ![r] = [op |-> "stats", n |-> started + 1,
                                     inventoryId |-> id, collation |-> collation]]
       /\ IF id \notin InvIds
          THEN /\ Reply(r, 404, "Inventory not found", NoBody)
               /\ loc' = [loc EXCEPT ![r] = NoLoc]
          ELSE /\ pc' = [pc EXCEPT ![r] = "stCount"]
               /\ resp' = [resp EXCEPT ![r] = NoResp]
               /\ loc' = [loc EXCEPT ![r] = [itemsCount |-> 0, numericValues |-> <<>>]]
  /\ started' = started + 1
  /\ UNCHANGED store

\* Promise.all, prisma.item.count
StatsCount(r) ==
  /\ pc[r] = "stCount"
  /\ loc' = [loc EXCEPT ![r].itemsCount = CountItems(req[r].inventoryId)]
  /\ pc' = [pc EXCEPT ![r] = "stNumeric"]
  /\ UNCHANGED <<store, req, resp, started>>

\* Promise.all, the findMany of the number values
StatsNumericValues(r) ==
  /\ pc[r] = "stNumeric"
  /\ loc' = [loc EXCEPT ![r].numericValues = numericValues(req[r].inventoryId)]
  /\ pc' = [pc EXCEPT ![r] = "stText"]
  /\ UNCHANGED <<store, req, resp, started>>

\* Promise.all, the findMany of the text values; the aggregation; res.json
StatsTextValues(r) ==
  /\ pc[r] = "stText"
  /\ Reply(r, 200, "",
           [itemsCount |-> loc[r].itemsCount,
            numericFields |-> numericFields(loc[r].numericValues, req[r].collation),
            textFields |-> textFields(textValues(req[r].inventoryId), req[r].collation)])
  /\ UNCHANGED <<store, req, loc, started>>

(* ---------------------------------------------------------- the system *)

Next ==
  \E r \in Reqs :
    \/ GetItem(r)
    \/ PatchItemFind(r)
    \/ PatchItemTxUpdate(r)
    \/ PatchItemTxDelete(r)
    \/ PatchItemTxCreate(r)
    \/ PatchItemTxCommit(r)
    \/ CreateItemFind(r)
    \/ CreateItemElements(r)
    \/ CreateItemCount(r)
    \/ CreateItemCreate(r)
    \/ PatchInventoryFind(r)
    \/ PatchInventoryTx(r)
    \/ GetInventory(r)
    \/ ReplaceFieldsFind(r)
    \/ ReplaceFieldsDeleteAll(r)
    \/ ReplaceFieldsTxFind(r)
    \/ ReplaceFieldsTxDeleteValues(r)
    \/ ReplaceFieldsTxDeleteFields(r)
    \/ ReplaceFieldsTxCreate(r)
    \/ ReplaceFieldsFindUpdated(r)
    \/ GetFields(r)

Spec == Init /\ [][Next]_vars

(* ------------------------------------- the custom-id routes by themselves *)

\* The stores the custom-id routes are run from: the two of InitStores, and
\* the seed followed by two POST items with client-supplied identifiers on
\* the office inventory (four items then) and one PUT custom-id with a
\* sequence of width 3.
CustomIdStores ==
  InitStores \cup
  { [fields |-> <<>>,
     elements |-> [i \in InvIds |-> IF i = Office
                                    THEN <<ElementRow("SEQUENCE", 0, Null, Num(3))>>
                                    ELSE <<>>],
     values |-> [k \in 1..5 |-> <<>>],
     items |-> [k \in 1..5 |->
                  IF k <= 3 THEN SeedItems[k]
                  ELSE [inventoryId |-> Office,
                        customId |-> IF k = 4 THEN "X-1" ELSE "X-2", version |-> 1]],
     nextFieldId |-> 1, nextValueId |-> 1] }

InitCustomId ==
  /\ inventories = SeedInventories
  /\ inventoryTags = SeedInventoryTags
  /\ tags = SeedTags
  /\ \E s \in CustomIdStores :
       /\ items = s.items
       /\ itemFieldValues = s.values
       /\ inventoryFields = s.fields
       /\ nextFieldId = s.nextFieldId
       /\ nextValueId = s.nextValueId
       /\ customIdElements = s.elements
  /\ pc = [r \in Reqs |-> "idle"]
  /\ req = [r \in Reqs |-> NoReq]
  /\ loc = [r \in Reqs |-> NoLoc]
  /\ resp = [r \in Reqs |-> NoResp]
  /\ started = 0
  /\ snapshots = [j \in DOMAIN items |-> {ItemJson(j, items[j], itemFieldValues[j])}]

NextCustomId ==
  \E r \in Reqs :
    \/ PutCustomIdFind(r)
    \/ PutCustomIdDeleteAll(r)
    \/ PutCustomIdDeleteWait(r)
    \/ PutCustomIdTxDelete(r)
    \/ PutCustomIdTxCreate(r)
    \/ PutCustomIdFindUpdated(r)
    \/ GetCustomIdFind(r)
    \/ GetCustomIdFindMany(r)
    \/ PreviewFind(r)
    \/ PreviewElements(r)
    \/ PreviewCount(r)
    \/ CreateItemFind(r)
    \/ CreateItemElements(r)
    \/ CreateItemCount(r)
    \/ CreateItemCreate(r)

SpecCustomId == InitCustomId /\ [][NextCustomId]_vars

(* ----------------------------------------- the stats route by itself *)

\* The items the statistics are run over: the seed and four POST items with
\* client-supplied identifiers on the office inventory, which has six items
\* then (1, 2, 4, 5, 6, 7).
StatsItems ==
  [k \in 1..7 |->
     IF k <= 3 THEN SeedItems[k]
     ELSE [inventoryId |-> Office,
           customId |-> CASE k = 4 -> "X-1" [] k = 5 -> "X-2" [] k = 6 -> "X-3" [] k = 7 -> "X-4",
           version |-> 1]]

\* The fields of the office inventory after one PUT fields.
StatsFields ==
  <<FieldRow(Office, "NUMBER", "qty", 0), FieldRow(Office, "SINGLE_LINE_TEXT", "name", 1),
    FieldRow(Office, "NUMBER", "weight", 2), FieldRow(Office, "MULTI_LINE_TEXT", "notes", 3)>>

\* What the six office items hold for each field (Null: no value row), as
\* the item updates of the clients stored it.
StatsColumns ==
  [qty |-> { <<Null, Null, Null, Null, Null, Null>>,
             <<Num(2), Num(4), Num(6), Null, Null, Null>>,
             <<Num(6), Num(2), Null, Num(4), Null, Null>>,
             <<Num(5), Null, Null, Null, Null, Null>>,
             <<Num(1), Num(2), Null, Null, Null, Null>>,
             <<Num(-3), Num(7), Num(7), Num(0), Null, Num(7)>> },
   weight |-> { <<Null, Null, Null, Null, Null, Null>>,
                <<Num(9), Null, Null, Null, Null, Num(1)>> },
   name |-> { <<Null, Null, Null, Null, Null, Null>>,
              <<Str("A"), Str("a "), Str("B"), Str("A"), Null, Null>>,
              <<Str("A"), Str("B"), Str("C"), Str("D"), Str("E"), Str("a")>>,
              <<Str("  "), Str("B"), Str(" "), Null, Null, Str("B")>>,
              <<Str("a"), Str("A"), Str("A"), Str("a "), Str("B"), Str("B")>> },
   notes |-> { <<Null, Null, Null, Null, Null, Null>>,
               <<Str("C"), Null, Null, Null, Null, Null>> }]

\* The value rows of the office item at place k among the office items: the
\* update that stored them named weight, qty, notes, name in this order.
StatsValues(k, qty, weight, name, notes) ==
  (IF weight[k] = Null THEN <<>>
   ELSE <<ValueRow(4 * k - 3, 3, Null, weight[k], Null, Null)>>)
  \o (IF qty[k] = Null THEN <<>>
      ELSE <<ValueRow(4 * k - 2, 1, Null, qty[k], Null, Null)>>)
  \o (IF notes[k] = Null THEN <<>>
      ELSE <<ValueRow(4 * k - 1, 4, notes[k], Null, Null, Null)>>)
  \o (IF name[k] = Null THEN <<>>
      ELSE <<ValueRow(4 * k, 2, name[k], Null, Null, Null)>>)

InitStats ==
  LET OfficeItems == <<1, 2, 4, 5, 6, 7>>
      Place(j) == CHOOSE k \in 1..Len(OfficeItems) : OfficeItems[k] = j
  IN
  /\ inventories = SeedInventories
  /\ inventoryTags = SeedInventoryTags
  /\ tags = SeedTags
  /\ inventoryFields = StatsFields
  /\ nextFieldId = 5
  /\ nextValueId = 25
  /\ customIdElements = [i \in InvIds |-> <<>>]
  /\ \E qty \in StatsColumns.qty : \E weight \in StatsColumns.weight :
       \E name \in StatsColumns.name : \E notes \in StatsColumns.notes :
         /\ itemFieldValues =
              [j \in 1..7 |-> IF j = 3 THEN <<>>
                              ELSE StatsValues(Place(j), qty, weight, name, notes)]
         /\ items = [j \in 1..7 |->
                       IF j # 3 /\ StatsValues(Place(j), qty, weight, name, notes) # <<>>
                       THEN [StatsItems[j] EXCEPT !.version = 2]
                       ELSE StatsItems[j]]
  /\ pc = [r \in Reqs |-> "idle"]
  /\ req = [r \in Reqs |-> NoReq]
  /\ loc = [r \in Reqs |-> NoLoc]
  /\ resp = [r \in Reqs |-> NoResp]
  /\ started = 0
  /\ snapshots = [j \in DOMAIN items |-> {ItemJson(j, items[j], itemFieldValues[j])}]

NextStats ==
  \E r \in Reqs :
    \/ StatsFind(r)
    \/ StatsCount(r)
    \/ StatsNumericValues(r)
    \/ StatsTextValues(r)

SpecStats == InitStats /\ [][NextStats]_vars

(* ------------------------------ the validation of PUT fields by itself *)

\* Longest submitted list: one more than the cap of a type.
MaxLen == 4

\* The submitted lists: every list of 1..MaxLen fields that are of a
\* supported or an unsupported type and have a title or a blank one.
SubmittedLists ==
  LET SubmittedFields ==
        {FieldPayload(type, title, Undef) : type \in {"NUMBER", "DATE"},
                                            title \in {Str("t"), Str("  ")}}
  IN UNION {[1..n -> SubmittedFields] : n \in 1..MaxLen}

InitValidate ==
  /\ inventories = SeedInventories
  /\ inventoryTags = SeedInventoryTags
  /\ tags = SeedTags
  /\ items = SeedItems
  /\ itemFieldValues = [k \in 1..3 |-> <<>>]
  /\ inventoryFields = <<>>
  /\ nextFieldId = 1
  /\ nextValueId = 1
  /\ customIdElements = [i \in InvIds |-> <<>>]
  /\ pc = [r \in Reqs |-> "idle"]
  /\ \E fields \in SubmittedLists :
       req = [r \in Reqs |-> IF r = 1
                             THEN [op |-> "validateFields", n |-> 0, fields |-> fields]
                             ELSE NoReq]
  /\ loc = [r \in Reqs |-> NoLoc]
  /\ resp = [r \in Reqs |-> NoResp]
  /\ started = 0
  /\ snapshots = [j \in DOMAIN items |-> {ItemJson(j, items[j], itemFieldValues[j])}]

\* The for loop of the handler over the submitted list: the first failure
\* is answered 400, else the handler goes on.
ValidateSubmitted(r) ==
  /\ pc[r] = "idle" /\ req[r].op = "validateFields"
  /\ LET result == ValidateFields(req[r].fields)
     IN IF result = "ok"
        THEN /\ pc' = [pc EXCEPT ![r] = "validated"]
             /\ UNCHANGED resp
        ELSE Reply(r, 400, result, NoBody)
  /\ UNCHANGED <<store, req, loc, started>>

NextValidate == \E r \in Reqs : ValidateSubmitted(r)

SpecValidate == InitValidate /\ [][NextValidate]_vars

(* --------------------- the settings editor of the inventory page (client) *)

\* Number of edits the user makes in one behaviour.
MaxEdits == 2

\* The place of the page's state among the local states.
Page == 0

\* The slot of the page's save request, and the slot of the other clients.
PageSlot == 1
OtherSlot == 2

RECURSIVE SetToSeq(_)
SetToSeq(set) ==
  IF set = {} THEN <<>>
  ELSE LET x == CHOOSE x \in set : TRUE IN <<x>> \o SetToSeq(set \ {x})

\* The form as loadInventoryDetails and the 409 branch of saveSettings set
\* it from an inventory the server sent.
FormOf(data) ==
  [title |-> data.title, description |-> data.description, category |-> data.category,
   isPublic |-> data.isPublic,
   imageUrl |-> IF Nullish(data.imageUrl) THEN "" ELSE data.imageUrl.str,
   tags |-> data.tags]

\* What the saveSettings of a render sees: the interval effect runs again,
\* and calls the saveSettings of the new render, only when inventoryDetails
\* or settingsDirty change.
Closure(form, dirty, details) == [form |-> form, dirty |-> dirty, version |-> details.version]

\* The body of the PATCH request saveSettings sends.
SettingsBody(form) ==
  InventoryBody(Str(form.title), Str(form.description), Str(form.category),
                Bool(form.isPublic),
                IF form.imageUrl = "" THEN Null ELSE Str(form.imageUrl),
                Tags(SetToSeq(form.tags)))

\* The page after loadInventoryDetails of the office inventory.
InitAutoSave ==
  /\ inventories = SeedInventories
  /\ inventoryTags = SeedInventoryTags
  /\ tags = SeedTags
  /\ items = SeedItems
  /\ itemFieldValues = [k \in 1..3 |-> <<>>]
  /\ inventoryFields = <<>>
  /\ nextFieldId = 1
  /\ nextValueId = 1
  /\ customIdElements = [i \in InvIds |-> <<>>]
  /\ pc = [r \in Reqs |-> "idle"]
  /\ req = [r \in Reqs |-> NoReq]
  /\ LET data == InventoryJson(Office, SeedInventories[Office], SeedInventoryTags[Office])
     IN loc = [p \in {Page} \cup Reqs |->
                 IF p = Page
                 THEN [details |-> data, form |-> FormOf(data), dirty |-> FALSE,
                       saving |-> FALSE, conflict |-> "",
                       closure |-> Closure(FormOf(data), FALSE, data),
                       edits |-> 0, unsent |-> FALSE]
                 ELSE NoLoc]
  /\ resp = [r \in Reqs |-> NoResp]
  /\ started = 0
  /\ snapshots = [j \in DOMAIN items |-> {ItemJson(j, items[j], itemFieldValues[j])}]

\* onChange of the title input: setSettingsTitle, setSettingsDirty(true).
\* unsent records that the form holds an edit no request has carried.
\* The user types "A", or "B" after it.
EditTitle ==
  /\ loc[Page].edits < MaxEdits
  /\ \E title \in {"A", "AB"} \ {loc[Page].form.title} :
       LET form == [loc[Page].form EXCEPT !.title = title]
       IN loc' = [loc EXCEPT ![Page].form = form,
                             ![Page].dirty = TRUE,
                             ![Page].closure = IF loc[Page].dirty THEN @
                                               ELSE Closure(form, TRUE, loc[Page].details),
                             ![Page].edits = @ + 1,
                             ![Page].unsent = TRUE]
  /\ UNCHANGED <<store, pc, req, resp, started>>

\* The interval calls the saveSettings of its render: nothing when that
\* render was not dirty, else the fetch with the form and version of that
\* render.
SaveSettingsSend ==
  /\ pc[PageSlot] = "idle"
  /\ loc[Page].closure.dirty
  /\ req' = [req EXCEPT ![PageSlot] =
               [op |-> "patchInventory", n |-> 0, inventoryId |-> Office,
                version |-> loc[Page].closure.version,
                body |-> SettingsBody(loc[Page].closure.form)]]
  /\ pc' = [pc EXCEPT ![PageSlot] = "pvSent"]
  /\ resp' = [resp EXCEPT ![PageSlot] = NoResp]
  /\ loc' = [loc EXCEPT ![Page].saving = TRUE,
                        ![Page].conflict = "",
                        ![Page].unsent = IF loc[Page].closure.form = loc[Page].form
                                         THEN FALSE ELSE @]
  /\ UNCHANGED <<store, started>>

\* The server's findUnique and version test for the request of the page.
SaveSettingsFind ==
  /\ pc[PageSlot] = "pvSent"
  /\ LET id == req[PageSlot].inventoryId
     IN IF ~VersionMatches(req[PageSlot].version, inventories[id])
        THEN /\ Reply(PageSlot, 409, VersionConflictInventory,
                      InventoryJson(id, inventories[id], inventoryTags[id]))
             /\ UNCHANGED loc
        ELSE /\ pc' = [pc EXCEPT ![PageSlot] = "pvTx"]
             /\ loc' = [loc EXCEPT ![PageSlot] = [current |-> inventories[id]]]
             /\ UNCHANGED resp
  /\ UNCHANGED <<store, req, started>>

\* saveSettings after the await: on 409 the form is set from the server's
\* inventory and the conflict message shown; on 200 inventoryDetails, the
\* image URL and the tags are set from the response; both set
\* settingsDirty(false).
SaveSettingsResponse ==
  /\ pc[PageSlot] = "done"
  /\ pc' = [pc EXCEPT ![PageSlot] = "idle"]
  /\ LET data == resp[PageSlot].body
         form == IF resp[PageSlot].status = 409 THEN FormOf(data)
                 ELSE [loc[Page].form EXCEPT !.imageUrl = FormOf(data).imageUrl,
                                             !.tags = data.tags]
     IN loc' = [loc EXCEPT ![Page].details = data,
                           ![Page].form = form,
                           ![Page].dirty = FALSE,
                           ![Page].saving = FALSE,
                           ![Page].conflict =
                             IF resp[PageSlot].status = 409
                             THEN "Settings updated by someone else. Latest version loaded."
                             ELSE @,
                           ![Page].closure = Closure(form, FALSE, data),
                           ![Page].unsent = IF resp[PageSlot].status = 409 THEN FALSE ELSE @]
  /\ UNCHANGED <<store, req, resp, started>>

NextAutoSave ==
  \/ EditTitle
  \/ SaveSettingsSend
  \/ SaveSettingsFind
  \/ SaveSettingsResponse
  \/ PatchInventoryFind(OtherSlot)
  \/ \E r \in Reqs : PatchInventoryTx(r)

\* The interval fires every 8 s, the server answers every request and the
\* page handles every response; the user and the other clients act when
\* they like.
SpecAutoSave ==
  /\ InitAutoSave
  /\ [][NextAutoSave]_vars
  /\ WF_vars(SaveSettingsSend)
  /\ WF_vars(SaveSettingsFind)
  /\ WF_vars(SaveSettingsResponse)
  /\ \A r \in Reqs : WF_vars(PatchInventoryTx(r))

(* -------------------------------------------------------------- claims *)

\* Slot r takes a new request in this step.
Starts(r) == started' = started + 1 /\ req'[r].n = started'

\* The handler of slot r sends its response in this step.
Finishes(r) == pc'[r] = "done" /\ (pc[r] # "done" \/ Starts(r))

\* The entity a PATCH request names.
Target(r) == IF req[r].op = "patchItem" THEN req[r].itemId ELSE req[r].inventoryId

\* C1. Of two updates of the same item, or of the same inventory, that
\* submit the same version, at most one is accepted.
C1_AtMostOneAccepted ==
  \A r1, r2 \in Reqs :
    ( /\ r1 # r2
      /\ pc[r1] = "done" /\ pc[r2] = "done"
      /\ req[r1].op \in {"patchItem", "patchInventory"}
      /\ req[r2].op = req[r1].op
      /\ Target(r1) = Target(r2)
      /\ req[r1].version = req[r2].version )
    => ~(resp[r1].status = 200 /\ resp[r2].status = 200)

\* C2. An update whose submitted version differs from the stored version is
\* answered with a conflict that carries the full current entity, and no
\* table changes.
C2_StaleUpdateRejected ==
  [][\A r \in Reqs :
       Starts(r) =>
         /\ ( /\ req'[r].op = "patchItem"
              /\ req'[r].itemId \in DOMAIN items
              /\ req'[r].version # items[req'[r].itemId].version )
            => /\ pc'[r] = "done"
               /\ resp'[r].status = 409
               /\ resp'[r].message = VersionConflictItem
               /\ resp'[r].body = ItemJson(req'[r].itemId, items[req'[r].itemId],
                                           itemFieldValues[req'[r].itemId])
               /\ resp'[r].body.version = items[req'[r].itemId].version
               /\ UNCHANGED tables
         /\ ( /\ req'[r].op = "patchInventory"
              /\ req'[r].inventoryId \in InvIds
              /\ req'[r].version # inventories[req'[r].inventoryId].version )
            => /\ pc'[r] = "done"
               /\ resp'[r].status = 409
               /\ resp'[r].message = VersionConflictInventory
               /\ resp'[r].body = InventoryJson(req'[r].inventoryId,
                                                inventories[req'[r].inventoryId],
                                                inventoryTags[req'[r].inventoryId])
               /\ resp'[r].body.version = inventories[req'[r].inventoryId].version
               /\ UNCHANGED tables
    ]_vars

\* A stale update of an item that holds values, which submitted values, was
\* answered with the conflict and the values.
C2_Witness ==
  \E r \in Reqs :
    /\ pc[r] = "done"
    /\ req[r].op = "patchItem"
    /\ req[r].fields.kind = "array"
    /\ resp[r].status = 409
    /\ resp[r].message = VersionConflictItem
    /\ resp[r].body.fields # <<>>
    /\ resp[r].body.version = req[r].version + 1

\* The version of an item, or of an inventory, changes in this step.
ItemVersionChanged(j) == j \in DOMAIN items /\ items'[j].version # items[j].version
InventoryVersionChanged(i) == inventories'[i].version # inventories[i].version

\* C3. No version ever decreases; the step that accepts an update raises the
\* version of its entity by exactly 1; a rejected update changes no version;
\* no other step changes a version.
C3_VersionsAdvanceByOne ==
  [][/\ \A j \in DOMAIN items : j \in DOMAIN items' /\ items'[j].version >= items[j].version
     /\ \A i \in InvIds : inventories'[i].version >= inventories[i].version
     /\ \A r \in Reqs :
          Finishes(r) /\ req'[r].op \in {"patchItem", "patchInventory"} =>
            IF resp'[r].status = 200
            THEN IF req'[r].op = "patchItem"
                 THEN /\ items'[req'[r].itemId].version = items[req'[r].itemId].version + 1
                      /\ resp'[r].body.version = items[req'[r].itemId].version + 1
                 ELSE /\ inventories'[req'[r].inventoryId].version
                           = inventories[req'[r].inventoryId].version + 1
                      /\ resp'[r].body.version = inventories[req'[r].inventoryId].version + 1
            ELSE /\ \A j \in DOMAIN items : ~ItemVersionChanged(j)
                 /\ \A i \in InvIds : ~InventoryVersionChanged(i)
     /\ \A j \in DOMAIN items :
          ItemVersionChanged(j) =>
            \E r \in Reqs : /\ Finishes(r) /\ req'[r].op = "patchItem" /\ req'[r].itemId = j
                            /\ resp'[r].status = 200
     /\ \A i \in InvIds :
          InventoryVersionChanged(i) =>
            \E r \in Reqs : /\ Finishes(r) /\ req'[r].op = "patchInventory"
                            /\ req'[r].inventoryId = i /\ resp'[r].status = 200
    ]_vars

\* One update of an item was accepted and another was rejected for a
\* duplicate customId.
C3_Witness ==
  \E r1, r2 \in Reqs :
    /\ pc[r1] = "done" /\ req[r1].op = "patchItem" /\ resp[r1].status = 200
    /\ resp[r1].body.version = items[req[r1].itemId].version
    /\ pc[r2] = "done" /\ req[r2].op = "patchItem" /\ resp[r2].status = 409
    /\ resp[r2].message = DuplicateCustomId

C5_CustomIdUnique ==
  \A i, j \in DOMAIN items :
    i # j /\ items[i].inventoryId = items[j].inventoryId
    => items[i].customId # items[j].customId

\* An item was created with a customId that an update of another item of the
\* inventory then asked for and was refused.
C5_Witness ==
  /\ Cardinality(DOMAIN items) > 3
  /\ \E r \in Reqs :
       /\ pc[r] = "done" /\ req[r].op = "patchItem" /\ resp[r].status = 409
       /\ resp[r].message = DuplicateCustomId
       /\ \E j \in DOMAIN items : j > 3 /\ items[j].customId = req[r].customId.str

\* C6. An item.create whose customId an item of the inventory already has is
\* answered with the duplicate conflict and inserts no row.
C6_CollisionInsertsNothing ==
  [][\A r \in Reqs :
       ( /\ pc[r] = "ciCreate" /\ pc'[r] = "done"
         /\ \E j \in DOMAIN items : /\ items[j].inventoryId = req[r].inventoryId
                                    /\ items[j].customId = loc[r].generatedId )
       => /\ resp'[r].status = 409
          /\ resp'[r].message = DuplicateCustomId
          /\ items' = items
          /\ itemFieldValues' = itemFieldValues
          /\ \A i \in InvIds : CountItems(i)' = CountItems(i)
    ]_vars

\* A creation that composed its identifier was refused as a duplicate.
C6_Witness ==
  \E r \in Reqs :
    /\ pc[r] = "done" /\ req[r].op = "createItem"
    /\ resp[r].status = 409 /\ resp[r].message = DuplicateCustomId
    /\ loc[r].composed = 1
    /\ Cardinality(DOMAIN items) = 4

\* C7. An update with a matching version that asks for a customId another
\* item of the inventory has is answered with a conflict whose message is
\* not the version-conflict message, and changes nothing.
C7_DuplicateOnUpdate ==
  [][\A r \in Reqs :
       ( /\ pc[r] = "piTxUpdate" /\ pc'[r] # "piTxUpdate"
         /\ ~Nullish(req[r].customId)
         /\ \E j \in DOMAIN items \ {req[r].itemId} :
              /\ items[j].inventoryId = items[req[r].itemId].inventoryId
              /\ items[j].customId = req[r].customId.str )
       => /\ pc'[r] = "done"
          /\ resp'[r].status = 409
          /\ resp'[r].message \notin {VersionConflictItem, VersionConflictInventory}
          /\ UNCHANGED tables
    ]_vars

\* An update that also submitted values was refused for its customId, and
\* the item is as it was created.
C7_Witness ==
  \E r \in Reqs :
    /\ pc[r] = "done" /\ req[r].op = "patchItem" /\ req[r].fields.kind = "array"
    /\ resp[r].status = 409 /\ resp[r].message = DuplicateCustomId
    /\ items[req[r].itemId].version = req[r].version
    /\ itemFieldValues[req[r].itemId] = <<>>

\* C8. The step that accepts an update leaves every attribute the request
\* omitted as it was stored just before.
C8_OmittedAttributesKept ==
  [][\A r \in Reqs :
       /\ (pc[r] = "pvTx" /\ pc'[r] = "done" /\ resp'[r].status = 200) =>
            LET id == req[r].inventoryId
                body == req[r].body
            IN /\ body.title = Undef => inventories'[id].title = inventories[id].title
               /\ body.description = Undef
                    => inventories'[id].description = inventories[id].description
               /\ body.category = Undef => inventories'[id].category = inventories[id].category
               /\ body.isPublic = Undef => inventories'[id].isPublic = inventories[id].isPublic
               /\ body.imageUrl = Undef => inventories'[id].imageUrl = inventories[id].imageUrl
               /\ body.tags.kind = "undefined" => inventoryTags'[id] = inventoryTags[id]
       /\ (pc[r] = "piTxCommit" /\ pc'[r] = "done" /\ resp'[r].status = 200) =>
            LET id == req[r].itemId
            IN /\ req[r].customId = Undef => items'[id].customId = items[id].customId
               /\ req[r].fields.kind = "undefined"
                    => itemFieldValues'[id] = itemFieldValues[id]
    ]_vars

\* A field list with a blank title, an unrecognized type or more than 3
\* fields of one type.
InvalidFieldList(elems) ==
  \/ \E k \in 1..Len(elems) : elems[k].title.kind # "string" \/ Trim(elems[k].title.str) = ""
  \/ \E k \in 1..Len(elems) : elems[k].type \notin FieldTypes
  \/ \E t \in FieldTypes : Cardinality({k \in 1..Len(elems) : elems[k].type = t}) > 3

\* C9. A replaceFields whose list holds a blank title, an unrecognized type
\* or more than 3 fields of one type is answered 400 and no table changes,
\* so the fields read afterwards are the fields read before.
C9_InvalidListRejectedWhole ==
  [][\A r \in Reqs :
       ( /\ Starts(r)
         /\ req'[r].op = "replaceFields"
         /\ req'[r].inventoryId \in InvIds
         /\ req'[r].fields.kind = "array"
         /\ InvalidFieldList(req'[r].fields.elems) )
       => /\ pc'[r] = "done"
          /\ resp'[r].status = 400
          /\ UNCHANGED tables
          /\ \A i \in InvIds : FieldsJson(i)' = FieldsJson(i)
    ]_vars

\* A list of 4 number fields was refused for an inventory that has fields
\* and values.
C9_Witness ==
  \E r \in Reqs :
    /\ pc[r] = "done" /\ req[r].op = "replaceFields" /\ resp[r].status = 400
    /\ Len(req[r].fields.elems) = 4
    /\ FieldsOf(req[r].inventoryId) # {}
    /\ ValuesOfFields(FieldsOf(req[r].inventoryId)) # {}

\* C10. Every inventory has at most 3 fields of any one type.
C10_AtMostThreePerType ==
  \A i \in InvIds, t \in FieldTypes :
    Cardinality({f \in FieldsOf(i) : inventoryFields[f].type = t}) <= 3

\* A field row, or a field of a response, without its id.
Shape(row) ==
  [type |-> row.type, title |-> row.title, description |-> row.description,
   showInTable |-> row.showInTable, orderIndex |-> row.orderIndex]

Shapes(rows) == [k \in 1..Len(rows) |-> Shape(rows[k])]

\* The complete field lists an inventory is ever given: the list it starts
\* with, the empty list, and every accepted list of a replaceFields.
CompleteFieldLists(inv) ==
  {<<>>}
  \cup {Shapes(OrderByOrderIndex(FilterSeq(s.fields, {row \in Range(s.fields) : row.inventoryId = inv})))
          : s \in InitStores}
  \cup {Shapes(OrderByOrderIndex(sanitized(inv, f.elems)))
          : f \in {f \in FieldListInputs(inv) : f.kind = "array" /\ ValidateFields(f.elems) = "ok"}}

\* C11. Every read of the fields of an inventory, by GET fields or by the
\* read that ends PUT fields, returns a complete list: the list the inventory
\* had before an edit or the list an edit submitted, never a list in between.
C11_ReadsSeeCompleteLists ==
  \A r \in Reqs :
    ( /\ pc[r] = "done"
      /\ req[r].op \in {"getFields", "replaceFields"}
      /\ resp[r].status = 200 )
    => Shapes(resp[r].body.fields) \in CompleteFieldLists(req[r].inventoryId)

\* C12. Every value row references a field row that exists.
C12_ValuesReferenceFields ==
  \A j \in DOMAIN items :
    \A k \in 1..Len(itemFieldValues[j]) :
      itemFieldValues[j][k].fieldId \in DOMAIN inventoryFields

\* A replaceFields replaced fields that had values, with the values, while an
\* update of an item of the inventory that submitted values was handled too.
C12_Witness ==
  \E r, q \in Reqs :
    /\ pc[r] = "done" /\ req[r].op = "replaceFields" /\ resp[r].status = 200
    /\ Len(req[r].fields.elems) > 0
    /\ req[r].inventoryId = Office
    /\ 1 \notin DOMAIN inventoryFields
    /\ pc[q] = "done" /\ req[q].op = "patchItem" /\ req[q].fields.kind = "array"
    /\ req[q].itemId = 1 /\ req[q].version = 2
    /\ req[q].n < req[r].n
    /\ resp[q].status = 200
    /\ resp[q].body.fields # <<>>
    /\ itemFieldValues[1] = <<>>

\* C13. After a successful replaceFields with a list of n entries the
\* returned list has the n entries in the submitted order, with orderIndex
\* 0..n-1 by position, whatever orderIndex the entries supplied.
C13_DenseOrderIndex ==
  \A r \in Reqs :
    ( /\ pc[r] = "done"
      /\ req[r].op = "replaceFields"
      /\ resp[r].status = 200
      /\ req[r].fields.kind = "array" )
    => LET submitted == req[r].fields.elems
           returned == resp[r].body.fields
       IN /\ Len(returned) = Len(submitted)
          /\ \A k \in 1..Len(returned) :
               /\ returned[k].orderIndex = k - 1
               /\ returned[k].type = submitted[k].type
               /\ returned[k].title = Trim(submitted[k].title.str)

\* The submitted value entries of slot r that name a field which is not a
\* field of the inventory of the item.
UnknownEntries(r) ==
  {k \in 1..Len(req[r].fields.elems) :
     req[r].fields.elems[k].fieldId \notin FieldsOf(items[req[r].itemId].inventoryId)}

\* C14. An item update that passed the version test and the customId check,
\* and that submitted an entry naming a field the inventory does not have,
\* is accepted: the version is raised and every value stored names a field
\* of the inventory.
C14_UnknownFieldsDropped ==
  [][\A r \in Reqs :
       ( /\ pc[r] \in {"piTxDelete", "piTxCreate", "piTxCommit"}
         /\ pc'[r] = "done"
         /\ UnknownEntries(r) # {} )
       => /\ resp'[r].status = 200
          /\ items'[req[r].itemId].version = items[req[r].itemId].version + 1
          /\ \A k \in 1..Len(itemFieldValues'[req[r].itemId]) :
               itemFieldValues'[req[r].itemId][k].fieldId
                 \in FieldsOf(items[req[r].itemId].inventoryId)
    ]_vars

\* C15. Every value row holds a value that is not empty in the slot its
\* field's type selects.
C15_ActiveSlotHeld ==
  \A j \in DOMAIN items :
    \A k \in 1..Len(itemFieldValues[j]) :
      LET row == itemFieldValues[j][k]
      IN row.fieldId \in DOMAIN inventoryFields
         => ActiveSlot(row, inventoryFields[row.fieldId].type) \notin {Null, Str("")}

\* C16. Every value row references a field of the inventory of its item.
C16_FieldOfSameInventory ==
  \A j \in DOMAIN items :
    \A k \in 1..Len(itemFieldValues[j]) :
      LET row == itemFieldValues[j][k]
      IN row.fieldId \in DOMAIN inventoryFields
         => inventoryFields[row.fieldId].inventoryId = items[j].inventoryId


\* n zeros.
RECURSIVE Zeros(_)
Zeros(n) == IF n <= 0 THEN "" ELSE "0" \o Zeros(n - 1)

\* The decimal form of k + 1 with zeros on the left up to w characters.
LeftPadded(k, w) == Zeros(w - Len(NumberToString(k + 1))) \o NumberToString(k + 1)

\* The formats of one sequence element.
OneSequence(elements) == Len(elements) = 1 /\ elements[1].type = "SEQUENCE"

\* C17: for a format of one sequence element of width w (6 when the element
\* has none) and k items in the inventory, the generator returns, to the item
\* creation and to the preview, the decimal form of k + 1 left-padded with
\* zeros to w characters; width 3 and 4 items give "005".
C17_SequenceRendering ==
  [][\A r \in Reqs :
       /\ (pc[r] = "ciCount" /\ pc'[r] = "ciCreate" /\ OneSequence(loc[r].elements))
            => LET k == CountItems(req[r].inventoryId)
                   w == IF loc[r].elements[1].numberWidth = Null THEN 6
                        ELSE loc[r].elements[1].numberWidth.num
               IN /\ loc'[r].generatedId = LeftPadded(k, w)
                  /\ (w = 3 /\ k = 4) => loc'[r].generatedId = "005"
       /\ (pc[r] = "pwCount" /\ pc'[r] = "done" /\ OneSequence(loc[r].elements))
            => LET k == CountItems(req[r].inventoryId)
                   w == IF loc[r].elements[1].numberWidth = Null THEN 6
                        ELSE loc[r].elements[1].numberWidth.num
               IN /\ resp'[r].body.preview = LeftPadded(k, w)
                  /\ (w = 3 /\ k = 4) => resp'[r].body.preview = "005"]_vars

\* A preview of "005" for the office inventory with four items and one
\* sequence element of width 3, and an item created with that identifier.
C17_Witness ==
  \E r \in Reqs :
    /\ pc[r] = "done" /\ req[r].op = "preview" /\ resp[r].status = 200
    /\ resp[r].body.preview = "005"
    /\ customIdElements[Office] = <<ElementRow("SEQUENCE", 0, Null, Num(3))>>
    /\ \E j \in DOMAIN items : items[j].inventoryId = Office /\ items[j].customId = "005"


\* The strings the renderings of the elements give when put one after the
\* other in the order of the sequence.
RECURSIVE Concatenations(_, _)
Concatenations(elements, k) ==
  IF elements = <<>> THEN {""}
  ELSE {a \o b : a \in Concatenations(SubSeq(elements, 1, Len(elements) - 1), k),
                 b \in Part(elements[Len(elements)], k + 1)}

\* The rows of the second sequence are those of the first, by ascending
\* orderIndex.
AscendingOf(rows, sorted) ==
  /\ Len(sorted) = Len(rows)
  /\ \A row \in Range(rows) \cup Range(sorted) :
       Cardinality({i \in 1..Len(rows) : rows[i] = row})
         = Cardinality({i \in 1..Len(sorted) : sorted[i] = row})
  /\ \A i, j \in 1..Len(sorted) : i < j => sorted[i].orderIndex <= sorted[j].orderIndex

\* C18: the generator takes the elements of the inventory by ascending
\* orderIndex and returns, to the item creation and to the preview, the
\* concatenation of their renderings in that order; a fixed text is rendered
\* verbatim, and a format of the one fixed text "INV-" gives exactly "INV-".
C18_ConcatenationInOrder ==
  [][\A r \in Reqs :
       /\ ((pc[r] = "ciElements" /\ pc'[r] = "ciCount")
             \/ (pc[r] = "pwElements" /\ pc'[r] = "pwCount"))
            => AscendingOf(customIdElements[req[r].inventoryId], loc'[r].elements)
       /\ (pc[r] = "ciCount" /\ pc'[r] = "ciCreate")
            => /\ loc'[r].generatedId
                    \in Concatenations(loc[r].elements, CountItems(req[r].inventoryId))
               /\ (Len(loc[r].elements) = 1 /\ loc[r].elements[1].type = "FIXED_TEXT")
                    => loc'[r].generatedId = loc[r].elements[1].fixedText.str
               /\ (Len(loc[r].elements) = 1 /\ loc[r].elements[1].type = "FIXED_TEXT"
                     /\ loc[r].elements[1].fixedText = Str("INV-"))
                    => loc'[r].generatedId = "INV-"
       /\ (pc[r] = "pwCount" /\ pc'[r] = "done")
            => /\ resp'[r].body.preview
                    \in Concatenations(loc[r].elements, CountItems(req[r].inventoryId))
               /\ (Len(loc[r].elements) = 1 /\ loc[r].elements[1].type = "FIXED_TEXT")
                    => resp'[r].body.preview = loc[r].elements[1].fixedText.str
               /\ (Len(loc[r].elements) = 1 /\ loc[r].elements[1].type = "FIXED_TEXT"
                     /\ loc[r].elements[1].fixedText = Str("INV-"))
                    => resp'[r].body.preview = "INV-"]_vars

\* A preview of "000003A" for the office inventory with two items, whose
\* elements were stored as the fixed text "A" with orderIndex 5 before the
\* sequence with orderIndex 2.
C18_Witness ==
  \E r \in Reqs :
    /\ pc[r] = "done" /\ req[r].op = "preview" /\ resp[r].status = 200
    /\ resp[r].body.preview = "000003A"
    /\ customIdElements[Office] = <<ElementRow("FIXED_TEXT", 5, Str("A"), Null),
                                    ElementRow("SEQUENCE", 2, Null, Null)>>


\* The identifiers made of the literal prefix "INV-" and a suffix.
IsFallback(id) == Len(id) > 4 /\ \E suffix \in {"K3J9QZ", "I"} : id = "INV-" \o suffix

\* C19: replaceCustomIdElements with an empty list is answered 200 with no
\* elements and its deleteMany leaves the inventory with zero elements; the
\* generator run for an inventory with zero elements, by an item creation
\* without a client identifier or by a preview, gives "INV-" followed by a
\* random suffix and composes nothing.
C19_EmptyFormatFallsBack ==
  [][\A r \in Reqs :
       /\ (pc[r] = "ceDeleteAll" /\ pc'[r] = "done")
            => /\ resp'[r].status = 200 /\ resp'[r].body.elements = <<>>
               /\ customIdElements'[req[r].inventoryId] = <<>>
       /\ (pc[r] = "ceDeleteWait" /\ pc'[r] = "done")
            => resp'[r].status = 200 /\ resp'[r].body.elements = <<>>
       /\ (pc[r] = "ciElements" /\ pc'[r] # "ciElements"
             /\ customIdElements[req[r].inventoryId] = <<>>)
            => pc'[r] = "ciCreate" /\ IsFallback(loc'[r].generatedId)
       /\ (pc[r] = "pwElements" /\ pc'[r] # "pwElements"
             /\ customIdElements[req[r].inventoryId] = <<>>)
            => /\ pc'[r] = "done" /\ resp'[r].status = 200
               /\ IsFallback(resp'[r].body.preview)]_vars

\* The office inventory with four items and a sequence format, emptied by a
\* replace with the empty list, and a later preview of a fallback identifier.
C19_Witness ==
  \E r \in Reqs : \E q \in Reqs \ {r} :
    /\ pc[r] = "done" /\ req[r].op = "putCustomId" /\ req[r].inventoryId = Office
    /\ req[r].elements = List(<<>>) /\ resp[r].status = 200
    /\ CountItems(Office) = 4 /\ customIdElements[Office] = <<>>
    /\ pc[q] = "done" /\ req[q].op = "preview" /\ req[q].inventoryId = Office
    /\ req[r].n < req[q].n /\ resp[q].status = 200 /\ IsFallback(resp[q].body.preview)


\* The element types that are rendered to a width.
WidthBearing == {"RANDOM_6_DIGITS", "RANDOM_9_DIGITS", "SEQUENCE"}

\* The submitted lists with a width-bearing element whose numberWidth is a
\* number and not positive.
NonPositiveWidth(elements) ==
  /\ elements.kind = "array"
  /\ \E k \in 1..Len(elements.elems) :
       /\ elements.elems[k].type \in WidthBearing
       /\ elements.elems[k].numberWidth.kind = "number"
       /\ elements.elems[k].numberWidth.num <= 0

\* C20: replaceCustomIdElements rejects a list in which a width-bearing
\* element supplies a non-positive numberWidth and writes nothing of it, so
\* that no stored width-bearing element has a non-positive numberWidth.
C20_NonPositiveWidthRejected ==
  /\ \A r \in Reqs :
       (pc[r] = "done" /\ req[r].op = "putCustomId" /\ req[r].inventoryId \in InvIds
          /\ NonPositiveWidth(req[r].elements))
         => resp[r].status \in 400..499
  /\ \A inv \in InvIds : \A k \in 1..Len(customIdElements[inv]) :
       (customIdElements[inv][k].type \in WidthBearing
          /\ customIdElements[inv][k].numberWidth # Null)
         => customIdElements[inv][k].numberWidth.num > 0


\* The places <<item, row>> of the number values stored for a field across
\* the items of an inventory.
NumberPlaces(inv, f) ==
  {p \in UNION {{<<j, k>> : k \in 1..Len(itemFieldValues[j])} : j \in DOMAIN items} :
     /\ items[p[1]].inventoryId = inv
     /\ itemFieldValues[p[1]][p[2]].fieldId = f
     /\ itemFieldValues[p[1]][p[2]].valueNumber # Null}

NumberAt(p) == itemFieldValues[p[1]][p[2]].valueNumber.num

RECURSIVE SumAt(_)
SumAt(places) ==
  IF places = {} THEN 0
  ELSE LET p == CHOOSE p \in places : TRUE IN NumberAt(p) + SumAt(places \ {p})

\* The number fields of an inventory that hold at least one value.
NumberFieldsWithValues(inv) ==
  {f \in DOMAIN inventoryFields :
     /\ inventoryFields[f].inventoryId = inv /\ inventoryFields[f].type = "NUMBER"
     /\ NumberPlaces(inv, f) # {}}

\* C21: for a number field with stored values the statistics report count =
\* the number of non-null values of the field across the items of the
\* inventory, min and max = the smallest and the largest of them, and avg =
\* their sum divided by count; the values 2, 4, 6 give count 3, min 2, max
\* 6, avg 4.
C21_NumericAggregates ==
  \A r \in Reqs :
    (pc[r] = "done" /\ req[r].op = "stats" /\ resp[r].status = 200)
      => LET inv == req[r].inventoryId
             list == resp[r].body.numericFields
         IN /\ \A f \in NumberFieldsWithValues(inv) :
                 Cardinality({k \in 1..Len(list) : list[k].fieldId = f}) = 1
            /\ \A k \in 1..Len(list) :
                 LET places == NumberPlaces(inv, list[k].fieldId)
                     values == {NumberAt(p) : p \in places}
                 IN /\ list[k].count = Cardinality(places)
                    /\ list[k].min \in values /\ \A v \in values : list[k].min <= v
                    /\ list[k].max \in values /\ \A v \in values : list[k].max >= v
                    /\ list[k].avg.den > 0
                    /\ list[k].avg.num * list[k].count = SumAt(places) * list[k].avg.den
                    /\ (values = {2, 4, 6} /\ Cardinality(places) = 3)
                         => /\ list[k].count = 3 /\ list[k].min = 2 /\ list[k].max = 6
                            /\ list[k].avg = [num |-> 4, den |-> 1]

\* Statistics of the office inventory whose items hold 2, 4 and 6 for the
\* field qty: count 3, min 2, max 6, avg 4.
C21_Witness ==
  \E r \in Reqs :
    /\ pc[r] = "done" /\ req[r].op = "stats" /\ resp[r].status = 200
    /\ req[r].inventoryId = Office
    /\ {NumberAt(p) : p \in NumberPlaces(Office, 1)} = {2, 4, 6}
    /\ \E k \in 1..Len(resp[r].body.numericFields) :
         resp[r].body.numericFields[k]
           = [fieldId |-> 1, title |-> "qty", count |-> 3, min |-> 2, max |-> 6,
              avg |-> [num |-> 4, den |-> 1]]


\* The trimmed, non-blank strings stored for a text field across the items
\* of an inventory, and how many value rows hold each.
TextPlaces(inv, f, text) ==
  {p \in UNION {{<<j, k>> : k \in 1..Len(itemFieldValues[j])} : j \in DOMAIN items} :
     /\ items[p[1]].inventoryId = inv
     /\ itemFieldValues[p[1]][p[2]].fieldId = f
     /\ itemFieldValues[p[1]][p[2]].valueString # Null
     /\ Trim(itemFieldValues[p[1]][p[2]].valueString.str) = text}

\* C22: for a text field the statistics count the values by their trimmed
\* string, skip the blank ones and report at most 5 entries by descending
\* count, ties by ascending lexicographic (code unit) value; the values "A",
\* "a ", "B", "A" give "A":2, then "B":1, then "a":1.
C22_TopValuesOrdered ==
  \A r \in Reqs :
    (pc[r] = "done" /\ req[r].op = "stats" /\ resp[r].status = 200)
      => \A k \in 1..Len(resp[r].body.textFields) :
           LET entry == resp[r].body.textFields[k]
               top == entry.topValues
           IN /\ Len(top) <= 5
              /\ \A i \in 1..Len(top) :
                   /\ top[i].value # ""
                   /\ top[i].count
                        = Cardinality(TextPlaces(req[r].inventoryId, entry.fieldId, top[i].value))
              /\ \A i, j \in 1..Len(top) :
                   i < j => \/ top[i].count > top[j].count
                            \/ /\ top[i].count = top[j].count
                               /\ Rank(top[i].value, "codeunit") < Rank(top[j].value, "codeunit")
              /\ (entry.fieldId = 2
                    /\ itemFieldValues[1] # <<>> /\ itemFieldValues[4] # <<>>
                    /\ \A j \in {1, 2, 4, 5, 6, 7} :
                         \A i \in 1..Len(itemFieldValues[j]) :
                           itemFieldValues[j][i].fieldId = 2
                             => itemFieldValues[j][i].valueString
                                  = (CASE j = 1 -> Str("A") [] j = 2 -> Str("a ")
                                       [] j = 4 -> Str("B") [] j = 5 -> Str("A")
                                       [] OTHER -> Null))
                   => top = <<[value |-> "A", count |-> 2], [value |-> "B", count |-> 1],
                              [value |-> "a", count |-> 1]>>


\* C25: the statistics hold in numericFields one aggregate for every number
\* field of the inventory, with count 0 for a field no item holds a value
\* of, and the numeric and the text results are each in ascending order of
\* the field title.
C25_EveryNumberFieldReported ==
  \A r \in Reqs :
    (pc[r] = "done" /\ req[r].op = "stats" /\ resp[r].status = 200)
      => LET inv == req[r].inventoryId
             numeric == resp[r].body.numericFields
             text == resp[r].body.textFields
         IN /\ \A f \in {f \in DOMAIN inventoryFields :
                           /\ inventoryFields[f].inventoryId = inv
                           /\ inventoryFields[f].type = "NUMBER"} :
                 /\ Cardinality({k \in 1..Len(numeric) : numeric[k].fieldId = f}) = 1
                 /\ NumberPlaces(inv, f) = {}
                      => \E k \in 1..Len(numeric) :
                           numeric[k].fieldId = f /\ numeric[k].count = 0
            /\ \A i, j \in 1..Len(numeric) :
                 i < j => localeCompare(numeric[i].title, numeric[j].title, req[r].collation) <= 0
            /\ \A i, j \in 1..Len(text) :
                 i < j => localeCompare(text[i].title, text[j].title, req[r].collation) <= 0


\* The steps of a preview request of slot r.
PreviewStep(r) ==
  \/ pc[r] \in {"pwElements", "pwCount"} /\ pc'[r] # pc[r]
  \/ req'[r] # req[r] /\ req'[r].op = "preview"

\* C23: a step of a preview request changes no table: items, value rows,
\* custom-id elements, fields, inventories and every version stay as they
\* were, and with them the item count and the identifier a creation would
\* compose.
C23_PreviewPersistsNothing ==
  [][\A r \in Reqs :
       PreviewStep(r)
         => /\ tables' = tables
            /\ snapshots' = snapshots
            /\ \A i \in InvIds :
                 /\ CountItems(i)' = CountItems(i)
                 /\ OrderByOrderIndex(customIdElements[i])'
                      = OrderByOrderIndex(customIdElements[i])]_vars

\* A preview of "005" answered before the request of an item creation that
\* then composed and stored "005" as well.
C23_Witness ==
  \E r \in Reqs : \E q \in Reqs \ {r} :
    /\ pc[r] = "done" /\ req[r].op = "preview" /\ resp[r].status = 200
    /\ resp[r].body.preview = "005"
    /\ pc[q] = "done" /\ req[q].op = "createItem" /\ resp[q].status = 201
    /\ req[q].customId = Undef
    /\ req[r].n < req[q].n
    /\ resp[q].body.customId = "005"


\* The finished item creations that ran the generator.
Generated(r) ==
  /\ pc[r] = "done" /\ req[r].op = "createItem" /\ req[r].inventoryId \in InvIds
  /\ Nullish(req[r].customId) /\ resp[r].status \in {201, 409}

\* The items a creation of slot r inserted.
InsertedBy(r) == IF resp[r].status = 201 THEN {resp[r].body.id} ELSE {}

\* C24: when two item creations of one inventory composed the same
\* identifier and no other item of the inventory holds it, exactly one of
\* them inserted a row and the other was answered 409; every creation runs
\* the generator at most once.
C24_CollisionSurfaced ==
  /\ \A r \in Reqs :
       (req[r].op = "createItem" /\ pc[r] \in {"ciElements", "ciCount", "ciCreate"})
         => loc[r].composed <= 1
  /\ \A r \in Reqs : Generated(r) => loc[r].composed = 1
  /\ \A r \in Reqs : \A q \in Reqs \ {r} :
       (/\ Generated(r) /\ Generated(q)
        /\ req[r].inventoryId = req[q].inventoryId
        /\ loc[r].generatedId = loc[q].generatedId
        /\ \A j \in DOMAIN items :
             (items[j].inventoryId = req[r].inventoryId
                /\ items[j].customId = loc[r].generatedId)
               => j \in InsertedBy(r) \cup InsertedBy(q))
         => /\ {resp[r].status, resp[q].status} = {201, 409}
            /\ Cardinality({j \in DOMAIN items :
                              /\ items[j].inventoryId = req[r].inventoryId
                              /\ items[j].customId = loc[r].generatedId}) = 1

\* Two creations in the office inventory with four items and a sequence
\* format that both read the count 4 and composed "005": one inserted, the
\* other was answered 409.
C24_Witness ==
  \E r \in Reqs : \E q \in Reqs \ {r} :
    /\ Generated(r) /\ Generated(q)
    /\ req[r].inventoryId = Office /\ req[q].inventoryId = Office
    /\ loc[r].generatedId = "005" /\ loc[q].generatedId = "005"
    /\ resp[r].status = 201 /\ resp[q].status = 409
    /\ loc[r].composed = 1 /\ loc[q].composed = 1
    /\ CountItems(Office) = 5


\* C26: the validation of a submitted list reports a blank title anywhere in
\* the list before an unsupported type, and an unsupported type anywhere
\* before an exceeded cap.
C26_ChecksInStatedOrder ==
  \A r \in Reqs :
    (req[r].op = "validateFields" /\ pc[r] = "done")
      => LET fields == req[r].fields
             blank == \E k \in 1..Len(fields) : BlankTitle(fields[k].title)
             unsupported == \E k \in 1..Len(fields) : fields[k].type \notin FieldTypes
         IN /\ blank => resp[r].message = "Field title is required for all fields."
            /\ (~blank /\ unsupported) => resp[r].message = "Unsupported field type"
            /\ (~blank /\ ~unsupported) => resp[r].message = "Too many fields of type"


\* A submitted entry with its typed slots: a slot holds what was sent when
\* that has the type of the slot, and nothing otherwise.
Typed(entry) ==
  [fieldId |-> entry.fieldId,
   valueString |-> IF entry.valueString.kind = "string" THEN entry.valueString ELSE Null,
   valueNumber |-> IF entry.valueNumber.kind = "number" THEN entry.valueNumber ELSE Null,
   valueBoolean |-> IF entry.valueBoolean.kind = "boolean" THEN entry.valueBoolean ELSE Null,
   valueLink |-> IF entry.valueLink.kind = "string" THEN entry.valueLink ELSE Null]

\* A value row without its id.
Slots(row) ==
  [fieldId |-> row.fieldId, valueString |-> row.valueString, valueNumber |-> row.valueNumber,
   valueBoolean |-> row.valueBoolean, valueLink |-> row.valueLink]

\* The places of the submitted entries with at least one slot that is not
\* null.
Valued(entries) ==
  {k \in 1..Len(entries) :
     \E slot \in {Typed(entries[k]).valueString, Typed(entries[k]).valueNumber,
                  Typed(entries[k]).valueBoolean, Typed(entries[k]).valueLink} : slot # Null}

\* C27: the commit of an accepted item update with a fields list leaves the
\* item with exactly the submitted entries that have a slot that is not
\* null, in their order, and with no value of a field the list does not
\* name; the commit of one without a fields list leaves the value rows of
\* the item as they were and the version one higher.
C27_ValueSetReplaced ==
  [][\A r \in Reqs :
       (pc[r] = "piTxCommit" /\ pc'[r] = "done" /\ resp'[r].status = 200)
         => LET id == req[r].itemId
                after == itemFieldValues'[id]
            IN IF req[r].fields.kind = "array"
               THEN LET entries == req[r].fields.elems
                    IN /\ Len(after) = Cardinality(Valued(entries))
                       /\ \A i \in 1..Len(after) :
                            \E k \in Valued(entries) :
                              /\ Slots(after[i]) = Typed(entries[k])
                              /\ Cardinality({m \in Valued(entries) : m <= k}) = i
                       /\ \A i \in 1..Len(after) :
                            after[i].fieldId \in {entries[k].fieldId : k \in 1..Len(entries)}
               ELSE /\ after = itemFieldValues[id]
                    /\ items'[id].version = items[id].version + 1]_vars

\* Item 1, which held 5 for field 1, after an accepted update that
\* submitted 7 for field 1 and "a " for field 2: two new rows and not the
\* old one.
C27_Witness ==
  \E r \in Reqs :
    /\ pc[r] = "done" /\ req[r].op = "patchItem" /\ req[r].itemId = 1
    /\ req[r].version = 2 /\ resp[r].status = 200
    /\ req[r].fields = Fields(<<Entry(1, Undef, Num(7), Undef, Undef),
                                Entry(2, Str("a "), Undef, Undef, Undef)>>)
    /\ itemFieldValues[1] = <<ValueRow(2, 1, Null, Num(7), Null, Null),
                              ValueRow(3, 2, Str("a "), Null, Null, Null)>>


\* C28: an item holds at most one value row per field, also after an
\* accepted update whose fields list names a field more than once, so that
\* the number of values of a field across an inventory's items never
\* exceeds its number of items.
C28_OneValuePerField ==
  /\ \A j \in DOMAIN itemFieldValues :
       \A i, k \in 1..Len(itemFieldValues[j]) :
         i # k => itemFieldValues[j][i].fieldId # itemFieldValues[j][k].fieldId
  /\ \A inv \in InvIds : \A f \in DOMAIN inventoryFields :
       Cardinality(NumberPlaces(inv, f)) <= CountItems(inv)


\* C29: replaceFields with an empty or a missing list is answered 200 and
\* leaves the inventory without fields and without values of the fields it
\* had, also when items hold values of these fields.
C29_EmptyListClearsSchema ==
  [][\A r \in Reqs : \A i \in InvIds :
       (pc[r] = "rfDeleteAll" /\ pc'[r] = "done" /\ req[r].inventoryId = i)
         => /\ resp'[r].status = 200
            /\ FieldsOf(i)' = {}
            /\ \A j \in DOMAIN itemFieldValues' :
                 \A k \in 1..Len(itemFieldValues'[j]) :
                   itemFieldValues'[j][k].fieldId \notin FieldsOf(i)]_vars


\* C30: every edit of the settings form is eventually carried by a save
\* request of the auto-save, sent with the version last received, or
\* replaced by the server's inventory together with the conflict message.
C30_EditsEventuallySaved == loc[Page].unsent ~> ~loc[Page].unsent

====
